---- MODULE Spec2Model ----
(***************************************************************************)
(* Breach-check batch engine of pw-checker (checkBreaches.ts): the         *)
(* deduplicating SELECT, the lookup client with its 429 retries, the       *)
(* UPDATE that fans a result out to every entry of an email, the batch     *)
(* loop with its delays, and the scheduled (cron) entry point.             *)
(*                                                                         *)
(* Strings are sequences of character codes, so LOWER, LIKE '%@%' and the  *)
(* byte order of ORDER BY are computed, not assumed.  Time is in seconds.  *)
(***************************************************************************)
EXTENDS Integers, Sequences, FiniteSets, TLC

\* ------------------------------------------------------------------ bounds
MaxRecords == 3
MaxRuns == 2
MaxLimit == 1
MaxLatency == 1
RateEmails == 4
MaxBreaches == 3

\* ------------------------------------------------------- program constants
\* RATE_LIMIT, with the delays in seconds.
requestsPerMinute == 10
batchSize == 8
delayBetweenRequests == 7
delayBetweenBatches == 70
\* retryCount <= maxRetries would allow one retry more
RetriesOffByOne == 3 + 1
maxRetries == 3
defaultScheduledBatch == 8

\* ------------------------------------------------------------ characters
chSpace == 32
chAt == 64
chUpperA == 65
chUpperZ == 90
chLowerA == 97
chLowerB == 98
caseOffset == 32

\* SQLite LOWER(): folds the ASCII letters A-Z only.
Lower(s) ==
  [k \in 1..Len(s) |->
     IF s[k] >= chUpperA /\ s[k] <= chUpperZ THEN s[k] + caseOffset ELSE s[k]]

\* username LIKE '%@%'
LikeAt(s) == \E k \in 1..Len(s) : s[k] = chAt

\* SQLite BINARY collation (memcmp, then length) used by ORDER BY.
BinaryLess(s, t) ==
  \/ \E k \in 1..Len(s) :
       /\ k <= Len(t)
       /\ \A j \in 1..(k - 1) : s[j] = t[j]
       /\ s[k] < t[k]
  \/ /\ Len(s) < Len(t)
     /\ \A j \in 1..Len(s) : s[j] = t[j]

\* The usernames an import can put into pw_entries (importCsv inserts
\* row.username as read: mixed case and surrounding blanks are kept).
UsernamePool ==
  << <<chLowerA, chAt>>,            \* "a@"
     <<chUpperA, chAt>>,            \* "A@"
     <<chLowerA, chAt, chSpace>>,   \* "a@ "
     <<chLowerB, chAt>>,            \* "b@"
     <<chLowerA>> >>                \* "a"   (no @: not an email)

\* ------------------------------------------------------------ breach_info
\* The breach_info column: SQL NULL, or the JSON document written by a check.
NullInfo == [isNull |-> TRUE]

\* breach_info IS NOT NULL AND breach_info != ''
HasInfo(e) == e.breach_info # NullInfo

\* BreachDate of a breach the service reports without one ("" in the JSON).
NoDate == 0
epochYear == 1970

\* new Date(b.BreachDate || "1970-01-01").getTime(), in years.
DateTime(b) == IF b.BreachDate = NoDate THEN epochYear ELSE b.BreachDate

\* [...breaches].sort((a, b) => dateB - dateA): a stable sort, newest first.
RECURSIVE InsertByDate(_, _)
InsertByDate(b, sorted) ==
  IF sorted = <<>> THEN <<b>>
  ELSE IF DateTime(Head(sorted)) >= DateTime(b)
       THEN <<Head(sorted)>> \o InsertByDate(b, Tail(sorted))
       ELSE <<b>> \o sorted

RECURSIVE SortBreaches(_)
SortBreaches(bs) ==
  IF bs = <<>> THEN <<>>
  ELSE InsertByDate(bs[Len(bs)], SortBreaches(SubSeq(bs, 1, Len(bs) - 1)))

\* JSON.stringify({checked: true, breached: false, checkedAt})
SafeInfo(t) ==
  [isNull |-> FALSE, checked |-> TRUE, breached |-> FALSE, checkedAt |-> t]

\* JSON.stringify({checked: true, breached: true, count, checkedAt, breaches})
BreachedInfo(bs, t) ==
  LET sortedBreaches == SortBreaches(bs) IN
  [isNull |-> FALSE, checked |-> TRUE, breached |-> TRUE,
   count |-> Len(sortedBreaches), checkedAt |-> t,
   breaches |-> [k \in 1..Len(sortedBreaches) |->
                   [name |-> sortedBreaches[k].Name,
                    date |-> IF sortedBreaches[k].BreachDate = NoDate
                             THEN "Unknown"
                             ELSE sortedBreaches[k].BreachDate]]]

\* UPDATE pw_entries SET breach_info = ? WHERE LOWER(username) = LOWER(?)
\* One SQL statement: SQLite applies it to every matching row or to none.
UpdateCaseSensitive(recs, info, username) ==
  [r \in DOMAIN recs |->
     IF recs[r].username = username
     THEN [recs[r] EXCEPT !.breach_info = info]
     ELSE recs[r]]

UpdateNothing(recs, info, username) == recs

UpdateFirstOnly(recs, info, username) ==
  LET hit == {r \in DOMAIN recs : Lower(recs[r].username) = Lower(username)} IN
  [r \in DOMAIN recs |->
     IF r \in hit /\ \A q \in hit : r <= q
     THEN [recs[r] EXCEPT !.breach_info = info]
     ELSE recs[r]]

UpdateBreachInfo(recs, info, username) ==
  [r \in DOMAIN recs |->
     IF Lower(recs[r].username) = Lower(username)
     THEN [recs[r] EXCEPT !.breach_info = info]
     ELSE recs[r]]

\* ----------------------------------------------------------- the SELECT
\* Rows passing the WHERE clause (lines 430-432).
ResumeIgnored(recs, resumeFlag) ==
  {r \in DOMAIN recs : LikeAt(recs[r].username)}

WhereRows(recs, resumeFlag) ==
  {r \in DOMAIN recs :
     /\ LikeAt(recs[r].username)
     /\ resumeFlag =>
          ~\E p2 \in DOMAIN recs :
              /\ Lower(recs[p2].username) = Lower(recs[r].username)
              /\ HasInfo(recs[p2])}

\* ORDER BY username: ascending by the LOWER(username) result column.
RECURSIVE OrderBy(_)
OrderBy(keys) ==
  IF keys = {} THEN <<>>
  ELSE LET first == CHOOSE k \in keys : \A o \in keys \ {k} : BinaryLess(k, o)
       IN <<first>> \o OrderBy(keys \ {first})

\* SELECT LOWER(username) as username, COUNT(*) as entry_count ...
\* GROUP BY LOWER(username) ORDER BY username
GroupByUsername(recs, rows) ==
  LET keys == OrderBy({recs[r].username : r \in rows}) IN
  [k \in 1..Len(keys) |->
     [username |-> keys[k],
      entry_count |-> Cardinality({r \in rows : recs[r].username = keys[k]})]]

GroupByLower(recs, rows) ==
  LET keys == OrderBy({Lower(recs[r].username) : r \in rows}) IN
  [k \in 1..Len(keys) |->
     [username |-> keys[k],
      entry_count |->
        Cardinality({r \in rows : Lower(recs[r].username) = keys[k]})]]

SelectAccounts(recs, resumeFlag) ==
  GroupByLower(recs, WhereRows(recs, resumeFlag))

\* limit ? accounts.slice(0, limit) : accounts   (limit: <<>> is undefined)
Truthy(lim) == lim # <<>> /\ lim[1] # 0

\* Array.prototype.slice(0, end): a negative end counts back from the end.
Slice(accounts, end) ==
  LET len == Len(accounts)
      final == IF end < 0
               THEN (IF len + end < 0 THEN 0 ELSE len + end)
               ELSE (IF end < len THEN end ELSE len)
  IN SubSeq(accounts, 1, final)

LimitAccounts(accounts, lim) ==
  IF Truthy(lim) THEN Slice(accounts, lim[1]) ELSE accounts

\* -------------------------------------------------- getBreachCheckProgress
\* COUNT(*) in place of COUNT(DISTINCT LOWER(username))
DistinctRows(recs, rows) == rows

DistinctLower(recs, rows) == {Lower(recs[r].username) : r \in rows}

\* getBreachCheckProgress with entries_affected, COUNT(*), taken for checked
getBreachCheckProgressByRows(recs) ==
  LET emails == {r \in DOMAIN recs : LikeAt(recs[r].username)}
      total == Cardinality(DistinctLower(recs, emails))
      checked == Cardinality({r \in emails : HasInfo(recs[r])})
      breached ==
        Cardinality(DistinctLower(recs,
          {r \in emails : HasInfo(recs[r]) /\ recs[r].breach_info.breached}))
      safe ==
        Cardinality(DistinctLower(recs,
          {r \in emails : HasInfo(recs[r]) /\ ~recs[r].breach_info.breached}))
  IN [total |-> total, checked |-> checked, breached |-> breached,
      safe |-> safe, remaining |-> total - checked]

getBreachCheckProgress(recs) ==
  LET emails == {r \in DOMAIN recs : LikeAt(recs[r].username)}
      total == Cardinality(DistinctLower(recs, emails))
      checked ==
        Cardinality(DistinctLower(recs, {r \in emails : HasInfo(recs[r])}))
      breached ==
        Cardinality(DistinctLower(recs,
          {r \in emails : HasInfo(recs[r]) /\ recs[r].breach_info.breached}))
      safe ==
        Cardinality(DistinctLower(recs,
          {r \in emails : HasInfo(recs[r]) /\ ~recs[r].breach_info.breached}))
  IN [total |-> total, checked |-> checked, breached |-> breached,
      safe |-> safe, remaining |-> total - checked]

\* ---------------------------------------------------- the lookup service
\* Bodies of the 200 responses the service is taken to give.
Bodies ==
  { <<>>,
    <<[Name |-> "Old", BreachDate |-> 2020],
      [Name |-> "Undated", BreachDate |-> NoDate],
      [Name |-> "New", BreachDate |-> 2023]>> }

\* What one fetch() can end in: an HTTP status (with a body for 200) or a
\* thrown transport error.
Statuses == {"200", "404", "429", "500", "exception"}

Responses ==
  [status : {"200"}, body : Bodies]
    \cup [status : Statuses \ {"200"}, body : {<<>>}]

\* checkBreachInfo's return value: null, or the array of breaches.
NoResponse == [status |-> "none", body |-> <<>>]

NullResult == [isNull |-> TRUE, list |-> <<>>]
ArrayResult(bs) == [isNull |-> FALSE, list |-> bs]

\* The rolling minute a request counts against, in seconds.
windowSeconds == 60

\* Ages (seconds since sent) of the requests of the last minute, d seconds on.
AgeBy(ages, d) ==
  LET older == [k \in 1..Len(ages) |-> ages[k] + d]
  IN SelectSeq(older, LAMBDA a : a < windowSeconds)

\* ------------------------------------------------------------------ state
VARIABLES
  records,          \* pw_entries: id -> [username, breach_info]
  HIBP_API_KEY,     \* process.env.HIBP_API_KEY is set (of the running process)
  pc,               \* where the process is: idle (no process), request,
                    \* backoff, apply, advance, done
  scheduled,        \* the process runs runScheduledBreachCheck
  limit, resume,    \* checkAllAccountsForBreaches(limit, resume)
  limitedAccounts,  \* the groups this run checks
  batchIndex, i,    \* the two loop counters
  retryCount,       \* checkBreachInfo's retryCount
  breaches,         \* what checkBreachInfo returned
  breachedCount, safeCount, errorCount,
  completed,        \* runScheduledBreachCheck's return value
  runs,             \* processes started so far
  lookedUp,         \* identities checkBreachInfo was called for, this run
  callRequests,     \* requests sent by the current checkBreachInfo call
  waits,            \* backoff waits of the current call, in seconds
  lastResponse,     \* the response the current lookup ended in
  killedAt,         \* where the last process was killed, if it was
  writes,           \* UPDATE statements executed, this run
  keyReports,       \* "API key required" reports, this run
  definitive,       \* identities that ever got a 200 or 404
  definitiveAtStart,\* ... as of the start of this run
  midKill,          \* an answer was lost between the response and its
                    \* UPDATE (the process was killed, or the UPDATE failed)
  traced,           \* request times are being recorded
  latency,          \* seconds a request takes
  service,          \* the statuses the lookup service answers with
  failing,          \* identities whose lookups the service always fails
  writeFailed,      \* the catch at 639 has reported a failed statement
  riskIndex,        \* entries updateAllRiskScores has scored so far
  sleeps,           \* the delays the batch loop has slept, this run (seconds)
  limitedRows,      \* checkAllPasswords: the ids of the rows it checks
  rangeResult,      \* checkAllPasswords: how the last row's lookup ended
  sentAges          \* ages of the requests sent in the last minute

argVars == <<HIBP_API_KEY, scheduled, limit, resume>>
histVars == <<definitive, midKill>>
runVars == <<definitiveAtStart, killedAt, writeFailed, sleeps>>
\* What no step of a breach-check process changes.
envVars == <<traced, latency, service, failing, riskIndex, limitedRows,
            rangeResult>>
vars == <<records, HIBP_API_KEY, pc, scheduled, limit, resume, limitedAccounts,
          batchIndex, i, retryCount, breaches, breachedCount, safeCount,
          errorCount, completed, runs, lookedUp, callRequests, waits,
          lastResponse, killedAt, writes, keyReports, definitive,
          definitiveAtStart,
          midKill, traced, latency, service, failing, writeFailed,
          riskIndex, sleeps, limitedRows, rangeResult, sentAges>>

\* ------------------------------------------------------- derived values
totalBatches ==
  (Len(limitedAccounts) + batchSize - 1) \div batchSize
batchStart == batchIndex * batchSize
\* one batch of the whole list
BatchOfEverything == Len(limitedAccounts)
batchEnd ==
  IF batchStart + batchSize < Len(limitedAccounts)
  THEN batchStart + batchSize ELSE Len(limitedAccounts)
\* a `break` out of the batch after the first error
BatchStopsOnError == IF errorCount > 0 THEN i + 1 ELSE batchEnd - batchStart
batchLength == batchEnd - batchStart
\* batch[0] in place of batch[i]
AccountFirstAlways == limitedAccounts[batchStart + 1]
account == limitedAccounts[batchStart + i + 1]

\* The statuses a lookup of username u can be answered with: an identity
\* the service always fails gets a 429 or a 500 every time.
Answers(u) == IF u \in failing THEN {"429", "500"} ELSE service

\* new Date().toISOString(), to the granularity of a run.
Now == runs

Tick(d) == sentAges' = IF traced THEN AgeBy(sentAges, d) ELSE sentAges

\* ------------------------------------------------------------------- Init
NoProcess ==
  /\ pc = "idle"
  /\ HIBP_API_KEY = FALSE /\ scheduled = FALSE /\ limit = <<>> /\ resume = FALSE
  /\ limitedAccounts = <<>> /\ batchIndex = 0 /\ i = 0 /\ retryCount = 0
  /\ breaches = NullResult
  /\ breachedCount = 0 /\ safeCount = 0 /\ errorCount = 0
  /\ completed = FALSE
  /\ lookedUp = <<>> /\ callRequests = 0 /\ waits = <<>>
  /\ lastResponse = NoResponse /\ killedAt = "none" /\ writes = 0 /\ keyReports = 0
  /\ sentAges = <<>>
  /\ definitiveAtStart = {}
  /\ writeFailed = FALSE
  /\ sleeps = <<>>

Init ==
  /\ \E pick \in [1..MaxRecords -> 1..Len(UsernamePool)] :
       \* rows are a multiset (no statement reads id), so one order of
       \* each multiset of usernames is enough
       /\ \A r \in 1..(MaxRecords - 1) : pick[r] <= pick[r + 1]
       /\ records = [r \in 1..MaxRecords |->
                       [username |-> UsernamePool[pick[r]],
                        breach_info |-> NullInfo]]
  /\ NoProcess
  /\ runs = 0
  /\ definitive = {} /\ midKill = FALSE
  /\ traced = FALSE /\ latency = 0
  /\ service = Statuses /\ failing = {}
  /\ riskIndex = 0
  /\ limitedRows = <<>> /\ rangeResult = "none"

\* ---------------------------------------------------------------- actions
\* No process is left: its variables are gone.
ProcessGone ==
  /\ pc' = "idle"
  /\ HIBP_API_KEY' = FALSE /\ scheduled' = FALSE /\ limit' = <<>>
  /\ resume' = FALSE
  /\ limitedAccounts' = <<>> /\ batchIndex' = 0 /\ i' = 0 /\ retryCount' = 0
  /\ breaches' = NullResult
  /\ breachedCount' = 0 /\ safeCount' = 0 /\ errorCount' = 0
  /\ completed' = FALSE
  /\ lookedUp' = <<>> /\ callRequests' = 0 /\ waits' = <<>>
  /\ lastResponse' = NoResponse /\ writes' = 0 /\ keyReports' = 0
  /\ sentAges' = <<>>
  /\ definitiveAtStart' = {}
  /\ writeFailed' = FALSE
  /\ sleeps' = <<>>

\* checkAllAccountsForBreaches(lim, res) up to the first lookup (388-478).
\* `after` is what the caller does once the function has returned.
EnterUnguarded(lim, res) ==
  LET accounts == SelectAccounts(records, res)
      limited == LimitAccounts(accounts, lim)
  IN /\ limit' = lim /\ resume' = res
     /\ keyReports' = 0
     /\ limitedAccounts' = limited
     /\ pc' = IF Len(limited) = 0 THEN "done" ELSE "request"

EnterCheckAll(lim, res) ==
  LET accounts == SelectAccounts(records, res)
      limited == LimitAccounts(accounts, lim)
  IN /\ limit' = lim /\ resume' = res
     /\ IF ~HIBP_API_KEY'
        THEN /\ keyReports' = 1
             /\ limitedAccounts' = <<>>
             /\ pc' = "done"
        ELSE /\ keyReports' = 0
             /\ limitedAccounts' = limited
             /\ pc' = IF Len(limited) = 0 THEN "done" ELSE "request"

\* A process is started: node dist/index.js --check-breaches [--limit=n]
\* [--resume] (database.ts 251-256).
StartRun ==
  /\ pc = "idle" /\ runs < MaxRuns
  /\ \E key \in BOOLEAN, res \in BOOLEAN,
        lim \in {<<>>} \cup {<<n>> : n \in (-MaxLimit)..MaxLimit} :
       /\ HIBP_API_KEY' = key
       /\ scheduled' = FALSE
       /\ EnterCheckAll(lim, res)
  /\ runs' = runs + 1
  /\ definitiveAtStart' = definitive
  /\ killedAt' = "none" /\ writeFailed' = FALSE
  /\ completed' = FALSE
  /\ UNCHANGED <<records, batchIndex, i, retryCount, breaches, breachedCount,
                 safeCount, errorCount, lookedUp, callRequests, waits,
                 lastResponse, writes, definitive, midKill, envVars, sentAges,
                 sleeps>>

\* runScheduledBreachCheck(size) up to the first lookup (738-762).
ScheduledCall(size) ==
  /\ scheduled' = TRUE
  /\ IF getBreachCheckProgress(records).remaining = 0
     THEN /\ completed' = TRUE
          /\ pc' = "done"
          /\ limit' = <<size>> /\ resume' = TRUE
          /\ keyReports' = 0
          /\ limitedAccounts' = <<>>
     ELSE /\ EnterCheckAll(<<size>>, TRUE)
          /\ completed' = (pc' = "done"
                            /\ getBreachCheckProgress(records).remaining = 0)

\* A process is started: node dist/index.js --breach-scheduled [--limit=n],
\* which calls runScheduledBreachCheck(limitValue || 8).
StartScheduled ==
  /\ pc = "idle" /\ runs < MaxRuns
  /\ \E key \in BOOLEAN,
        limitValue \in {<<>>} \cup {<<n>> : n \in (-MaxLimit)..MaxLimit} :
       /\ HIBP_API_KEY' = key
       /\ ScheduledCall(IF Truthy(limitValue) THEN limitValue[1]
                        ELSE defaultScheduledBatch)
  /\ runs' = runs + 1
  /\ definitiveAtStart' = definitive
  /\ killedAt' = "none" /\ writeFailed' = FALSE
  /\ UNCHANGED <<records, batchIndex, i, retryCount, breaches, breachedCount,
                 safeCount, errorCount, lookedUp, callRequests, waits,
                 lastResponse, writes, definitive, midKill, envVars, sentAges,
                 sleeps>>

\* One fetch() of checkBreachInfo and the branch taken on its outcome
\* (310-383); the first request of a call is where the call begins.
SendRequest ==
  /\ pc = "request"
  /\ lookedUp' = IF retryCount = 0 THEN Append(lookedUp, account.username)
                 ELSE lookedUp
  /\ IF ~HIBP_API_KEY
     THEN /\ keyReports' = keyReports + 1
          /\ breaches' = NullResult
          /\ pc' = "apply"
          /\ UNCHANGED <<callRequests, lastResponse, definitive, sentAges>>
     ELSE \E resp \in {r \in Responses :
                          r.status \in Answers(account.username)} :
            /\ callRequests' = callRequests + 1
            /\ lastResponse' = resp
            /\ sentAges' = IF traced
                           THEN AgeBy(Append(sentAges, 0), latency)
                           ELSE sentAges
            /\ keyReports' = keyReports
            /\ definitive' = IF resp.status \in {"200", "404"}
                             THEN definitive \cup {account.username}
                             ELSE definitive
            /\ CASE resp.status = "404" ->
                      breaches' = ArrayResult(<<>>) /\ pc' = "apply"
                 [] resp.status = "429" ->
                      IF retryCount < maxRetries
                      THEN breaches' = breaches /\ pc' = "backoff"
                      ELSE breaches' = NullResult /\ pc' = "apply"
                 [] resp.status = "200" ->
                      breaches' = ArrayResult(resp.body) /\ pc' = "apply"
                 [] OTHER ->
                      breaches' = NullResult /\ pc' = "apply"
  /\ UNCHANGED <<records, argVars, limitedAccounts, batchIndex, i, retryCount,
                 breachedCount, safeCount, errorCount, completed, runs, waits,
                 writes, runVars, midKill, envVars>>

\* The wait before a retry and the recursive call (346-355).
Backoff ==
  /\ pc = "backoff"
  /\ LET waitTime == (2 ^ retryCount) * 2
     IN /\ waits' = Append(waits, waitTime)
        /\ Tick(waitTime)
  /\ retryCount' = retryCount + 1
  /\ pc' = "request"
  /\ UNCHANGED <<records, argVars, limitedAccounts, batchIndex, i, breaches,
                 breachedCount, safeCount, errorCount, completed, runs,
                 lookedUp, callRequests, lastResponse, writes, keyReports,
                 histVars, runVars, envVars>>

\* The three branches on the lookup's result (507, 510, 527).
ResultKindNullIsSafe(b) ==
  IF b.isNull \/ Len(b.list) = 0 THEN "safe" ELSE "breached"

ResultKind(b) ==
  IF b.isNull THEN "error"
  ELSE IF Len(b.list) = 0 THEN "safe"
  ELSE "breached"

\* What the loop does with the lookup's result (507-572).
ApplyResult ==
  /\ pc = "apply"
  /\ IF ResultKind(breaches) = "error"
     THEN /\ errorCount' = errorCount + 1
          /\ UNCHANGED <<records, safeCount, breachedCount, writes>>
     ELSE IF ResultKind(breaches) = "safe"
     THEN /\ records' = UpdateBreachInfo(records, SafeInfo(Now), account.username)
          /\ safeCount' = safeCount + 1
          /\ writes' = writes + 1
          /\ UNCHANGED <<errorCount, breachedCount>>
     ELSE /\ records' = UpdateBreachInfo(records,
                          BreachedInfo(breaches.list, Now), account.username)
          /\ breachedCount' = breachedCount + 1
          /\ writes' = writes + 1
          /\ UNCHANGED <<errorCount, safeCount>>
  /\ pc' = "advance"
  /\ lastResponse' = NoResponse
  /\ UNCHANGED <<argVars, limitedAccounts, batchIndex, i, retryCount, breaches,
                 completed, runs, lookedUp, callRequests, waits,
                 keyReports, histVars, runVars, envVars, sentAges>>

\* A statement that fails changes no row (SQLite statement atomicity).
FailedUpdatePartial(recs, info, username) ==
  UpdateFirstOnly(recs, info, username)

\* a failed statement that empties the rows it was to write
FailedUpdateClears(recs, info, username) ==
  [r \in DOMAIN recs |->
     IF Lower(recs[r].username) = Lower(username)
     THEN [recs[r] EXCEPT !.breach_info = NullInfo] ELSE recs[r]]

FailedUpdate(recs, info, username) == recs

\* The UPDATE rejects (disk full, database locked): the catch at 639
\* reports the error, the finally closes the database and the function
\* returns without touching the rest of the list.
WriteFails ==
  /\ pc = "apply"
  /\ ResultKind(breaches) # "error"
  /\ records' = FailedUpdate(records,
                   IF ResultKind(breaches) = "safe" THEN SafeInfo(Now)
                   ELSE BreachedInfo(breaches.list, Now),
                   account.username)
  /\ writeFailed' = TRUE
  /\ midKill' = TRUE
  /\ pc' = "done"
  /\ completed' = (scheduled
                    /\ getBreachCheckProgress(records').remaining = 0)
  /\ lastResponse' = NoResponse
  /\ UNCHANGED <<argVars, limitedAccounts, batchIndex, i, retryCount, breaches,
                 breachedCount, safeCount, errorCount, runs, lookedUp,
                 callRequests, waits, writes, keyReports, definitive,
                 definitiveAtStart, killedAt, sleeps, envVars, sentAges>>

\* The countdown of 619-623: one second is slept while `remaining` seconds
\* are left.
RECURSIVE Countdown(_)
Countdown(remaining) ==
  IF remaining > 0 THEN 1 + Countdown(remaining - 1) ELSE 0

\* The delays and loop steps that follow an account (574-638): the next
\* account of the batch after delayBetweenRequests, the next batch after
\* delayBetweenBatches, or the end of the run.
Advance ==
  /\ pc = "advance"
  /\ IF i < batchLength - 1
     THEN /\ Tick(delayBetweenRequests)
          /\ sleeps' = Append(sleeps, delayBetweenRequests)
          /\ i' = i + 1
          /\ batchIndex' = batchIndex
          /\ pc' = "request"
     ELSE IF batchIndex < totalBatches - 1
     THEN /\ Tick(delayBetweenBatches)
          /\ sleeps' = Append(sleeps, Countdown(delayBetweenBatches))
          /\ i' = 0
          /\ batchIndex' = batchIndex + 1
          /\ pc' = "request"
     ELSE /\ UNCHANGED <<i, batchIndex, sentAges, sleeps>>
          /\ pc' = "done"
  /\ retryCount' = 0
  /\ callRequests' = 0
  /\ waits' = <<>>
  /\ completed' = (scheduled /\ pc' = "done"
                    /\ getBreachCheckProgress(records).remaining = 0)
  /\ UNCHANGED <<records, argVars, limitedAccounts, breaches, breachedCount,
                 safeCount, errorCount, runs, lookedUp, lastResponse,
                 writes, keyReports, histVars, definitiveAtStart, killedAt,
                 writeFailed, envVars>>

\* The function has returned: runScheduledBreachCheck reads the progress
\* again (765-766), and the process exits.
Exit ==
  /\ pc = "done"
  /\ ProcessGone
  /\ killedAt' = "none"
  /\ UNCHANGED <<records, runs, histVars, envVars>>

\* The process is killed (Ctrl-C, power loss) at any await.
Kill ==
  /\ pc \in {"request", "backoff", "apply", "advance"}
  /\ midKill' = (midKill \/ (pc = "apply" /\ ~breaches.isNull))
  /\ killedAt' = pc
  /\ ProcessGone
  /\ UNCHANGED <<records, runs, definitive, envVars>>

Next ==
  \/ StartRun
  \/ StartScheduled
  \/ SendRequest
  \/ Backoff
  \/ ApplyResult
  \/ WriteFails
  \/ Advance
  \/ Exit
  \/ Kill

Spec == Init /\ [][Next]_vars

\* One run over RateEmails distinct emails against a service that answers
\* 404 or 429, with the time of every request recorded.
InitRate ==
  /\ records = [r \in 1..RateEmails |->
                  [username |-> <<chLowerA + r - 1, chAt>>,
                   breach_info |-> NullInfo]]
  /\ NoProcess
  /\ runs = MaxRuns - 1
  /\ definitive = {} /\ midKill = FALSE
  /\ traced = TRUE /\ latency \in 0..MaxLatency
  /\ service = {"404", "429"} /\ failing = {}
  /\ riskIndex = 0
  /\ limitedRows = <<>> /\ rangeResult = "none"

SpecRate == InitRate /\ [][Next]_vars

\* One run over BatchEmails distinct emails, more than one batch of them,
\* against a service that answers 404 or 429.
BatchEmails == 9

InitBatch ==
  /\ records = [r \in 1..BatchEmails |->
                  [username |-> <<chLowerA + r - 1, chAt>>,
                   breach_info |-> NullInfo]]
  /\ NoProcess
  /\ runs = MaxRuns - 1
  /\ definitive = {} /\ midKill = FALSE
  /\ traced = FALSE /\ latency = 0
  /\ service = {"404", "429"} /\ failing = {}
  /\ riskIndex = 0
  /\ limitedRows = <<>> /\ rangeResult = "none"

SpecBatch == InitBatch /\ [][Next]_vars

\* cron starts one scheduled process after another (cron-breach-check.sh),
\* each with the API key of .env and a positive batch size.
CronRun ==
  /\ pc = "idle"
  /\ HIBP_API_KEY' = TRUE
  /\ \E size \in (1..MaxLimit) \cup {defaultScheduledBatch} :
       ScheduledCall(size)
  /\ runs' = IF runs < MaxRuns THEN runs + 1 ELSE runs
  /\ definitiveAtStart' = definitive
  /\ killedAt' = "none" /\ writeFailed' = FALSE
  /\ UNCHANGED <<records, batchIndex, i, retryCount, breaches, breachedCount,
                 safeCount, errorCount, lookedUp, callRequests, waits,
                 lastResponse, writes, definitive, midKill, envVars, sentAges,
                 sleeps>>

\* Any store, and a service that answers 404 except for the identities of
\* `failing`, whose lookups it fails every time.
InitSched ==
  /\ \E pick \in [1..MaxRecords -> 1..Len(UsernamePool)] :
       /\ \A r \in 1..(MaxRecords - 1) : pick[r] <= pick[r + 1]
       /\ records = [r \in 1..MaxRecords |->
                       [username |-> UsernamePool[pick[r]],
                        breach_info |-> NullInfo]]
  /\ NoProcess
  /\ runs = 0
  /\ definitive = {} /\ midKill = FALSE
  /\ traced = FALSE /\ latency = 0
  /\ service = {"404"}
  /\ failing \in SUBSET {Lower(records[r].username) :
                            r \in {e \in DOMAIN records :
                                     LikeAt(records[e].username)}}
  /\ riskIndex = 0
  /\ limitedRows = <<>> /\ rangeResult = "none"

NextSched ==
  \/ CronRun
  \/ SendRequest
  \/ Backoff
  \/ ApplyResult
  \/ Advance
  \/ Exit

\* Every process runs on until it exits, and cron keeps starting the next.
SpecSched == InitSched /\ [][NextSched]_vars /\ WF_vars(NextSched)

\* The BreachDate values a 200 body is taken to carry: none, a date before
\* 1970 and two later ones (years).
BreachDates == {NoDate, 1969, 2020, 2023}
BreachNames == <<"A", "B", "C", "D">>

\* A run over one identity of two entries, at the moment checkBreachInfo has
\* returned the array of a 200 response: any list of up to MaxBreaches
\* breaches, the k-th named BreachNames[k].
InitSort ==
  /\ records = [r \in 1..2 |->
                  [username |-> UsernamePool[r], breach_info |-> NullInfo]]
  /\ \E n \in 0..MaxBreaches : \E dates \in [1..n -> BreachDates] :
       breaches = ArrayResult([k \in 1..n |->
                    [Name |-> BreachNames[k], BreachDate |-> dates[k]]])
  /\ pc = "apply"
  /\ HIBP_API_KEY = TRUE /\ scheduled = FALSE /\ limit = <<>> /\ resume = FALSE
  /\ limitedAccounts = SelectAccounts(records, FALSE)
  /\ batchIndex = 0 /\ i = 0 /\ retryCount = 0
  /\ breachedCount = 0 /\ safeCount = 0 /\ errorCount = 0
  /\ completed = FALSE
  /\ runs = 1
  /\ lookedUp = <<Lower(UsernamePool[1])>> /\ callRequests = 1 /\ waits = <<>>
  /\ lastResponse = [status |-> "200", body |-> breaches.list]
  /\ killedAt = "none" /\ writes = 0 /\ keyReports = 0
  /\ definitive = {Lower(UsernamePool[1])} /\ definitiveAtStart = {}
  /\ midKill = FALSE /\ writeFailed = FALSE
  /\ traced = FALSE /\ latency = 0
  /\ service = Statuses /\ failing = {}
  /\ riskIndex = 0
  /\ limitedRows = <<>> /\ rangeResult = "none"
  /\ sentAges = <<>> /\ sleeps = <<>>

SpecSort == InitSort /\ [][ApplyResult]_vars

\* ============================================================ riskScoring.ts
\* Risk scoring (riskScoring.ts): entries are the rows of pw_entries as
\* db.all() returns them; text is a sequence of character codes.
MaxEntries == 3

DEFAULT_RISK_WEIGHTS ==
  [compromisedPassword |-> 50,
   emailBreachesPerBreach |-> 10,
   criticalAccountCategory |-> 30,
   oldPasswordAge |-> 15,
   weakPassword |-> 20,
   duplicatePassword |-> 15,
   noTwoFactorAuth |-> 10]

CRITICAL_CATEGORIES ==
  << <<98, 97, 110, 107>>,                                  \* "bank"
     <<98, 97, 110, 107, 105, 110, 103>>,                   \* "banking"
     <<102, 105, 110, 97, 110, 99, 105, 97, 108>>,          \* "financial"
     <<102, 105, 110, 97, 110, 99, 101>>,                   \* "finance"
     <<112, 97, 121, 112, 97, 108>>,                        \* "paypal"
     <<118, 101, 110, 109, 111>>,                           \* "venmo"
     <<99, 97, 115, 104>>,                                  \* "cash"
     <<105, 110, 118, 101, 115, 116, 109, 101, 110, 116>>,  \* "investment"
     <<116, 114, 97, 100, 105, 110, 103>>,                  \* "trading"
     <<99, 114, 121, 112, 116, 111>>,                       \* "crypto"
     <<98, 105, 116, 99, 111, 105, 110>>,                   \* "bitcoin"
     <<119, 97, 108, 108, 101, 116>>,                       \* "wallet"
     <<99, 114, 101, 100, 105, 116>>,                       \* "credit"
     <<108, 111, 97, 110>>,                                 \* "loan"
     <<109, 111, 114, 116, 103, 97, 103, 101>>,             \* "mortgage"
     <<119, 111, 114, 107>>,                                \* "work"
     <<111, 102, 102, 105, 99, 101>>,                       \* "office"
     <<99, 111, 109, 112, 97, 110, 121>>,                   \* "company"
     <<99, 111, 114, 112, 111, 114, 97, 116, 101>>,         \* "corporate"
     <<101, 110, 116, 101, 114, 112, 114, 105, 115, 101>>,  \* "enterprise"
     <<98, 117, 115, 105, 110, 101, 115, 115>>,             \* "business"
     <<112, 114, 111, 102, 101, 115, 115, 105, 111, 110, 97, 108>>,  \* "professional"
     <<103, 109, 97, 105, 108>>,                            \* "gmail"
     <<111, 117, 116, 108, 111, 111, 107>>,                 \* "outlook"
     <<101, 109, 97, 105, 108>>,                            \* "email"
     <<109, 105, 99, 114, 111, 115, 111, 102, 116>>,        \* "microsoft"
     <<103, 111, 111, 103, 108, 101>>,                      \* "google"
     <<97, 119, 115>>,                                      \* "aws"
     <<97, 122, 117, 114, 101>>,                            \* "azure"
     <<111, 102, 102, 105, 99, 101, 51, 54, 53>>,           \* "office365"
     <<103, 111, 118, 101, 114, 110, 109, 101, 110, 116>>,  \* "government"
     <<103, 111, 118>>,                                     \* "gov"
     <<105, 114, 115>>,                                     \* "irs"
     <<116, 97, 120>>,                                      \* "tax"
     <<108, 101, 103, 97, 108>>,                            \* "legal"
     <<99, 111, 117, 114, 116>>,                            \* "court"
     <<100, 109, 118>>,                                     \* "dmv"
     <<115, 111, 99, 105, 97, 108, 32, 115, 101, 99, 117, 114, 105, 116, 121>>,  \* "social security"
     <<104, 101, 97, 108, 116, 104>>,                       \* "health"
     <<109, 101, 100, 105, 99, 97, 108>>,                   \* "medical"
     <<104, 111, 115, 112, 105, 116, 97, 108>>,             \* "hospital"
     <<100, 111, 99, 116, 111, 114>>,                       \* "doctor"
     <<112, 104, 97, 114, 109, 97, 99, 121>>,               \* "pharmacy"
     <<105, 110, 115, 117, 114, 97, 110, 99, 101>>,         \* "insurance"
     <<117, 116, 105, 108, 105, 116, 121>>,                 \* "utility"
     <<101, 108, 101, 99, 116, 114, 105, 99>>,              \* "electric"
     <<103, 97, 115>>,                                      \* "gas"
     <<119, 97, 116, 101, 114>>,                            \* "water"
     <<105, 110, 116, 101, 114, 110, 101, 116>>,            \* "internet"
     <<112, 104, 111, 110, 101>>,                           \* "phone"
     <<109, 111, 98, 105, 108, 101>> >>                     \* "mobile"

\* text.startsWith(pattern)
StartsWith(text, pattern) ==
  Len(pattern) <= Len(text) /\ SubSeq(text, 1, Len(pattern)) = pattern

\* text.includes(pattern)
Includes(text, pattern) ==
  \E k \in 0..(Len(text) - Len(pattern)) :
    SubSeq(text, k + 1, k + Len(pattern)) = pattern

\* String.prototype.toLowerCase(), on ASCII text.
toLowerCase(s) ==
  [k \in 1..Len(s) |->
     IF s[k] >= chUpperA /\ s[k] <= chUpperZ THEN s[k] + caseOffset ELSE s[k]]

\* getRiskLevel with > in place of >=
getRiskLevelExclusive(score) ==
  [score |-> score,
   label |-> IF score > 80 THEN "Critical"
             ELSE IF score > 60 THEN "High"
             ELSE IF score > 30 THEN "Medium"
             ELSE "Low"]

getRiskLevel(score) ==
  [score |-> score,
   label |-> IF score >= 80 THEN "Critical"
             ELSE IF score >= 60 THEN "High"
             ELSE IF score >= 30 THEN "Medium"
             ELSE "Low"]

isCriticalAccount(name, url) ==
  LET searchText == toLowerCase(name \o <<chSpace>> \o url)
  IN \E c \in 1..Len(CRITICAL_CATEGORIES) :
       Includes(searchText, CRITICAL_CATEGORIES[c])

commonPatterns ==
  << <<112, 97, 115, 115, 119, 111, 114, 100>>,             \* "password"
     <<49, 50, 51, 52, 53, 54>>,                            \* "123456"
     <<113, 119, 101, 114, 116, 121>>,                      \* "qwerty"
     <<97, 98, 99, 49, 50, 51>>,                            \* "abc123"
     <<97, 100, 109, 105, 110>>,                            \* "admin"
     <<108, 101, 116, 109, 101, 105, 110>>,                 \* "letmein"
     <<119, 101, 108, 99, 111, 109, 101>>,                  \* "welcome"
     <<109, 111, 110, 107, 101, 121>>,                      \* "monkey"
     <<49, 49, 49, 49, 49, 49>>,                            \* "111111"
     <<100, 114, 97, 103, 111, 110>>,                       \* "dragon"
     <<109, 97, 115, 116, 101, 114>>,                       \* "master"
     <<112, 114, 105, 110, 99, 101, 115, 115>> >>           \* "princess"

\* /123|abc|qwe|asd|zxc/i
sequentialPatterns ==
  << <<49, 50, 51>>,                                        \* "123"
     <<97, 98, 99>>,                                        \* "abc"
     <<113, 119, 101>>,                                     \* "qwe"
     <<97, 115, 100>>,                                      \* "asd"
     <<122, 120, 99>> >>                                    \* "zxc"

\* The character classes of the four regular expressions [a-z], [A-Z],
\* [0-9] and [^a-zA-Z0-9].
IsLowerChar(c) == c >= 97 /\ c <= 122
IsUpperChar(c) == c >= chUpperA /\ c <= chUpperZ
IsDigitChar(c) == c >= 48 /\ c <= 57

\* The weakness of a password, 0 (strong) to 100.
calculatePasswordStrength(password) ==
  IF password = <<>> THEN 100
  ELSE
    LET chars == {password[k] : k \in 1..Len(password)}
        lengthPenalty == IF Len(password) < 8 THEN 30
                         ELSE IF Len(password) < 12 THEN 15 ELSE 0
        hasLower == \E c \in chars : IsLowerChar(c)
        hasUpper == \E c \in chars : IsUpperChar(c)
        hasDigits == \E c \in chars : IsDigitChar(c)
        hasSpecial == \E c \in chars :
                        ~IsLowerChar(c) /\ ~IsUpperChar(c) /\ ~IsDigitChar(c)
        charTypes == Cardinality({t \in {<<1, hasLower>>, <<2, hasUpper>>,
                                         <<3, hasDigits>>, <<4, hasSpecial>>} :
                                    t[2]})
        varietyPenalty == IF charTypes < 2 THEN 25
                          ELSE IF charTypes < 3 THEN 15
                          ELSE IF charTypes < 4 THEN 5 ELSE 0
        lowerPassword == toLowerCase(password)
        commonPenalty ==
          IF \E p \in 1..Len(commonPatterns) :
               Includes(lowerPassword, commonPatterns[p])
          THEN 40 ELSE 0
        sequentialPenalty ==
          IF \E p \in 1..Len(sequentialPatterns) :
               Includes(lowerPassword, sequentialPatterns[p])
          THEN 20 ELSE 0
        repeatedPenalty ==
          IF \E k \in 1..(Len(password) - 2) :
               password[k] = password[k + 1] /\ password[k] = password[k + 2]
          THEN 15 ELSE 0
        weaknessScore == lengthPenalty + varietyPenalty + commonPenalty
                           + sequentialPenalty + repeatedPenalty
    IN IF weaknessScore < 100 THEN weaknessScore ELSE 100

\* Time in months: now, and the months isPasswordOld looks back by default.
nowMonth == 24
monthsThreshold == 12

\* last_checked_at is <<>> (NULL) or <<month>>.
isPasswordOld(lastCheckedAt) ==
  IF lastCheckedAt = <<>> THEN TRUE
  ELSE lastCheckedAt[1] < nowMonth - monthsThreshold

\* JavaScript values of the compromised column as db.all() returns them
\* (NULL, or the integer SQLite stores for a boolean), and the literal true.
jsNull == [type |-> "null", value |-> "null"]
jsNumber(n) == [type |-> "number", value |-> n]
jsTrue == [type |-> "boolean", value |-> TRUE]

\* a === b
StrictEquals(a, b) == a.type = b.type /\ a.value = b.value

\* Math.round(n / d) for n >= 0, d > 0.
MathRound(n, d) == (2 * n + d) \div (2 * d)

\* Math.min(100, Math.round(score)), score being a sum of integers.
UncappedScore(score) == score
WrappedScore(score) == score % 101
CappedScore(score) == IF score < 100 THEN score ELSE 100

Factor(text, n) == [text |-> text, n |-> n]

\* The other entries that have the password of this one (357-362): the
\* filter, first without the test of the id, then as the code has it.
duplicateCountWithSelf(entry, allEntries) ==
  Cardinality({o \in DOMAIN allEntries :
                 /\ allEntries[o].password = entry.password
                 /\ entry.password # <<>>})

duplicateCount(entry, allEntries) ==
  Cardinality({o \in DOMAIN allEntries :
                 /\ allEntries[o].id # entry.id
                 /\ allEntries[o].password = entry.password
                 /\ entry.password # <<>>})

calculateRiskScore(entry, allEntries) ==
  LET weights == DEFAULT_RISK_WEIGHTS
      isCompromised == StrictEquals(entry.compromised, jsTrue)
      breachInfo == entry.breach_info
      isBreached == /\ HasInfo(entry)
                    /\ breachInfo.breached
                    /\ breachInfo.count # 0
      perBreach == IF isBreached
                   THEN breachInfo.count * weights.emailBreachesPerBreach
                   ELSE 0
      breachScore == IF perBreach < 50 THEN perBreach ELSE 50
      isCritical == isCriticalAccount(entry.name, entry.url)
      isOld == isPasswordOld(entry.last_checked_at)
      passwordWeakness == calculatePasswordStrength(entry.password)
      weaknessScore == IF passwordWeakness > 0
                       THEN MathRound(passwordWeakness * weights.weakPassword, 100)
                       ELSE 0
      dupes == duplicateCount(entry, allEntries)
      score == (IF isCompromised THEN weights.compromisedPassword ELSE 0)
                 + breachScore
                 + (IF isCritical THEN weights.criticalAccountCategory ELSE 0)
                 + (IF isOld THEN weights.oldPasswordAge ELSE 0)
                 + weaknessScore
                 + (IF dupes > 0 THEN weights.duplicatePassword ELSE 0)
      factors ==
        (IF isCompromised
         THEN <<Factor("Password found in data breaches", 0)>> ELSE <<>>)
        \o (IF isBreached
            THEN <<Factor("Email found in data breaches", breachInfo.count)>>
            ELSE <<>>)
        \o (IF isCritical
            THEN <<Factor("Critical account category (banking, work, etc.)", 0)>>
            ELSE <<>>)
        \o (IF isOld
            THEN <<Factor("Password not updated in over 12 months", 0)>>
            ELSE <<>>)
        \o (IF passwordWeakness > 50 THEN <<Factor("Very weak password", 0)>>
            ELSE IF passwordWeakness > 25 THEN <<Factor("Weak password", 0)>>
            ELSE <<>>)
        \o (IF dupes > 0
            THEN <<Factor("Password reused across accounts", dupes + 1)>>
            ELSE <<>>)
  IN [score |-> CappedScore(score), factors |-> factors]

\* ------------------------------------------------- the entries to be scored
\* Account names and URLs: "x" at "x", "Bank" at "x", "Social" at "security".
AccountPool ==
  << [name |-> <<120>>, url |-> <<120>>],
     [name |-> <<66, 97, 110, 107>>, url |-> <<120>>],
     [name |-> <<83, 111, 99, 105, 97, 108>>,
      url |-> <<115, 101, 99, 117, 114, 105, 116, 121>>] >>

\* Passwords: none, "abc", "Tr0ub4dor", "xK7#pQ2!mZ9$".
PasswordPool ==
  << <<>>,
     <<97, 98, 99>>,
     <<84, 114, 48, 117, 98, 52, 100, 111, 114>>,
     <<120, 75, 55, 35, 112, 81, 50, 33, 109, 90, 57, 36>> >>

\* compromised as checkPasswords leaves it: NULL, 0 or 1.
CompromisedPool == {jsNull, jsNumber(0), jsNumber(1)}

\* breach_info as checkAllAccountsForBreaches leaves it: NULL, safe, or
\* breached with one or with six breaches.
BreachInfoPool ==
  {NullInfo, SafeInfo(1)}
    \cup {BreachedInfo([k \in 1..n |-> [Name |-> "B", BreachDate |-> 2020]], 1) :
            n \in {1, 6}}

\* last_checked_at: NULL, twelve months ago, thirteen months ago.
LastCheckedPool ==
  {<<>>, <<nowMonth - monthsThreshold>>, <<nowMonth - monthsThreshold - 1>>}

\* The first entry is any combination of the pools; the others are plain
\* entries with any password, so that passwords are shared or not.
InitRisk ==
  /\ \E a \in 1..Len(AccountPool), p \in 1..Len(PasswordPool),
        c \in CompromisedPool, b \in BreachInfoPool, t \in LastCheckedPool,
        others \in [2..MaxEntries -> 1..Len(PasswordPool)] :
       records =
         [r \in 1..MaxEntries |->
            IF r = 1
            THEN [id |-> r, name |-> AccountPool[a].name,
                  url |-> AccountPool[a].url,
                  username |-> UsernamePool[1], password |-> PasswordPool[p],
                  compromised |-> c, last_checked_at |-> t, breach_info |-> b,
                  risk_score |-> <<>>, risk_label |-> "", risk_factors |-> <<>>]
            ELSE [id |-> r, name |-> AccountPool[1].name,
                  url |-> AccountPool[1].url,
                  username |-> UsernamePool[4],
                  password |-> PasswordPool[others[r]],
                  compromised |-> jsNull,
                  last_checked_at |-> <<nowMonth>>, breach_info |-> NullInfo,
                  risk_score |-> <<>>, risk_label |-> "", risk_factors |-> <<>>]]
  /\ NoProcess
  /\ runs = 0
  /\ definitive = {} /\ midKill = FALSE
  /\ traced = FALSE /\ latency = 0
  /\ service = Statuses /\ failing = {}
  /\ riskIndex = 0
  /\ limitedRows = <<>> /\ rangeResult = "none"

\* Two statements in place of one: the score is written, the label and the
\* factors are left for a second statement.
ScoreEntryScoreOnly ==
  /\ pc = "idle"
  /\ riskIndex < Len(records)
  /\ LET entry == records[riskIndex + 1]
         result == calculateRiskScore(entry, records)
     IN records' = [records EXCEPT ![riskIndex + 1] =
                      [entry EXCEPT !.risk_score = <<result.score>>]]
  /\ riskIndex' = riskIndex + 1
  /\ UNCHANGED <<HIBP_API_KEY, pc, scheduled, limit, resume, limitedAccounts,
                 batchIndex, i, retryCount, breaches, breachedCount, safeCount,
                 errorCount, completed, runs, lookedUp, callRequests, waits,
                 lastResponse, killedAt, writes, keyReports, definitive,
                 definitiveAtStart, midKill, traced, latency, service, failing,
                 writeFailed, sentAges, sleeps, limitedRows, rangeResult>>

\* The risk columns are NULL (<<>>, "" and <<>>) until they are written;
\* a written risk_score is <<score>>, written risk_factors are <<list>>.
\* One turn of the loop of updateAllRiskScores (420-432): the next entry is
\* scored against all entries and its three risk columns are written.
ScoreEntry ==
  /\ pc = "idle"
  /\ riskIndex < Len(records)
  /\ LET entry == records[riskIndex + 1]
         result == calculateRiskScore(entry, records)
         riskLevel == getRiskLevel(result.score)
     IN records' = [records EXCEPT ![riskIndex + 1] =
                      [entry EXCEPT !.risk_score = <<result.score>>,
                                    !.risk_label = riskLevel.label,
                                    !.risk_factors = <<result.factors>>]]
  /\ riskIndex' = riskIndex + 1
  /\ UNCHANGED <<HIBP_API_KEY, pc, scheduled, limit, resume, limitedAccounts,
                 batchIndex, i, retryCount, breaches, breachedCount, safeCount,
                 errorCount, completed, runs, lookedUp, callRequests, waits,
                 lastResponse, killedAt, writes, keyReports, definitive,
                 definitiveAtStart, midKill, traced, latency, service, failing,
                 writeFailed, sentAges, sleeps, limitedRows, rangeResult>>

SpecRisk == InitRisk /\ [][ScoreEntry]_vars

\* --------------------------------------------------- passes over one store
\* The pass is over or the process is killed between two entries: the next
\* updateAllRiskScores starts with the first entry.
EndPass ==
  /\ pc = "idle"
  /\ riskIndex > 0
  /\ riskIndex' = 0
  /\ UNCHANGED <<records, HIBP_API_KEY, pc, scheduled, limit, resume,
                 limitedAccounts, batchIndex, i, retryCount, breaches,
                 breachedCount, safeCount, errorCount, completed, runs,
                 lookedUp, callRequests, waits, lastResponse, killedAt, writes,
                 keyReports, definitive, definitiveAtStart, midKill, traced,
                 latency, service, failing, writeFailed, sentAges, sleeps,
                 limitedRows, rangeResult>>

\* Between two passes a breach check writes the breach_info of an entry.
BreachInfoWritten ==
  /\ pc = "idle"
  /\ riskIndex = 0
  /\ \E r \in DOMAIN records, b \in BreachInfoPool \ {NullInfo} :
       records' = [records EXCEPT ![r].breach_info = b]
  /\ UNCHANGED <<HIBP_API_KEY, pc, scheduled, limit, resume,
                 limitedAccounts, batchIndex, i, retryCount, breaches,
                 breachedCount, safeCount, errorCount, completed, runs,
                 lookedUp, callRequests, waits, lastResponse, killedAt, writes,
                 keyReports, definitive, definitiveAtStart, midKill, traced,
                 latency, service, failing, writeFailed, sentAges, sleeps,
                 limitedRows, rangeResult, riskIndex>>

\* Two entries not yet scored or checked for breaches: the first with any
\* account and password, the second with the password "abc".
InitPasses ==
  /\ \E a \in 1..Len(AccountPool), p \in 1..Len(PasswordPool) :
       records =
         [r \in 1..2 |->
            [id |-> r,
             name |-> IF r = 1 THEN AccountPool[a].name ELSE AccountPool[1].name,
             url |-> IF r = 1 THEN AccountPool[a].url ELSE AccountPool[1].url,
             username |-> UsernamePool[IF r = 1 THEN 1 ELSE 4],
             password |-> PasswordPool[IF r = 1 THEN p ELSE 2],
             compromised |-> jsNull,
             last_checked_at |-> <<nowMonth>>, breach_info |-> NullInfo,
             risk_score |-> <<>>, risk_label |-> "", risk_factors |-> <<>>]]
  /\ NoProcess
  /\ runs = 0
  /\ definitive = {} /\ midKill = FALSE
  /\ traced = FALSE /\ latency = 0
  /\ service = Statuses /\ failing = {}
  /\ riskIndex = 0
  /\ limitedRows = <<>> /\ rangeResult = "none"

NextPasses ==
  \/ ScoreEntry
  \/ EndPass
  \/ BreachInfoWritten

SpecPasses == InitPasses /\ [][NextPasses]_vars

\* ------------------------------------------------ passwords to be weighed
\* Passwords are built of at most MaxFragments pieces of printable ASCII:
\* "", "a", "aaa", "ABC", "123", "Password", "Xy", "!", "7",
\* "Tr0ub4dor&3xtra!" and "xK7#pQ2!mZ".
MaxFragments == 3

PasswordFragments ==
  << <<>>,
     <<97>>,
     <<97, 97, 97>>,
     <<65, 66, 67>>,
     <<49, 50, 51>>,
     <<80, 97, 115, 115, 119, 111, 114, 100>>,
     <<88, 121>>,
     <<33>>,
     <<55>>,
     <<84, 114, 48, 117, 98, 52, 100, 111, 114, 38, 51, 120, 116, 114, 97, 33>>,
     <<120, 75, 55, 35, 112, 81, 50, 33, 109, 90>> >>

Concat(pieces) ==
  LET F[k \in 0..Len(pieces)] ==
        IF k = 0 THEN <<>> ELSE F[k - 1] \o PasswordFragments[pieces[k]]
  IN F[Len(pieces)]

\* One entry, never checked, with any such password.
InitStrength ==
  /\ \E pieces \in [1..MaxFragments -> 1..Len(PasswordFragments)] :
       records =
         << [id |-> 1, name |-> AccountPool[1].name,
             url |-> AccountPool[1].url,
             username |-> UsernamePool[1], password |-> Concat(pieces),
             compromised |-> jsNull,
             last_checked_at |-> <<nowMonth>>, breach_info |-> NullInfo,
             risk_score |-> <<>>, risk_label |-> "", risk_factors |-> <<>>] >>
  /\ NoProcess
  /\ runs = 0
  /\ definitive = {} /\ midKill = FALSE
  /\ traced = FALSE /\ latency = 0
  /\ service = Statuses /\ failing = {}
  /\ riskIndex = 0
  /\ limitedRows = <<>> /\ rangeResult = "none"

SpecStrength == InitStrength /\ [][ScoreEntry]_vars

\* --------------------------------------------- entries by number of breaches
\* The largest number of breaches an identity is stored with.
MaxCount == 7

\* breach_info of an identity found in n breaches; none is the safe record.
InfoWithCount(n) ==
  IF n = 0 THEN SafeInfo(1)
  ELSE BreachedInfo([k \in 1..n |-> [Name |-> "B", BreachDate |-> 2020]], 1)

\* Two entries: the first is any combination of the pools with any number
\* of breaches, the second has its password or another one.
InitBreachCounts ==
  /\ \E a \in 1..Len(AccountPool), p \in 1..Len(PasswordPool),
        c \in CompromisedPool, n \in 0..MaxCount, t \in LastCheckedPool,
        other \in 1..Len(PasswordPool) :
       records =
         << [id |-> 1, name |-> AccountPool[a].name,
             url |-> AccountPool[a].url,
             username |-> UsernamePool[1], password |-> PasswordPool[p],
             compromised |-> c, last_checked_at |-> t,
             breach_info |-> InfoWithCount(n),
             risk_score |-> <<>>, risk_label |-> "", risk_factors |-> <<>>],
            [id |-> 2, name |-> AccountPool[1].name,
             url |-> AccountPool[1].url,
             username |-> UsernamePool[4], password |-> PasswordPool[other],
             compromised |-> jsNull,
             last_checked_at |-> <<nowMonth>>, breach_info |-> NullInfo,
             risk_score |-> <<>>, risk_label |-> "", risk_factors |-> <<>>] >>
  /\ NoProcess
  /\ runs = 0
  /\ definitive = {} /\ midKill = FALSE
  /\ traced = FALSE /\ latency = 0
  /\ service = Statuses /\ failing = {}
  /\ riskIndex = 0
  /\ limitedRows = <<>> /\ rangeResult = "none"

SpecBreachCounts == InitBreachCounts /\ [][ScoreEntry]_vars

\* ========================================================= checkPasswords.ts
\* checkAllPasswords: the rows of pw_entries are taken by the columns it
\* reads and writes (id, password, compromised, last_checked_at, notes).
MaxRows == 2

\* A password as db.all() returns it: NULL or a string.
jsString(s) == [type |-> "string", value |-> s]

\* !password
Falsy(password) ==
  IF password.type = "null" THEN TRUE ELSE password.value = <<>>

\* NULL (a Chrome database import), "" (an empty CSV field) and "abc".
RowPasswordPool == {jsNull, jsString(<<>>), jsString(<<97, 98, 99>>)}

\* What the range request can end in: a response that is ok and has the
\* suffix of the hash, one that is ok and has not, one that is not ok, and
\* a rejected fetch.
RangeOutcomes == {"found", "absent", "notOk", "networkError"}

\* checkPasswordAgainstHIBP (21-61): the value returned, and how the
\* request ended ("none": no request was made).  The thrown error of a
\* response that is not ok and a rejected fetch end in the catch, which
\* returns false.
checkPasswordAgainstHIBP(password, outcome) ==
  IF Falsy(password) THEN [isCompromised |-> FALSE, rangeResult |-> "none"]
  ELSE [isCompromised |-> (outcome = "found"), rangeResult |-> outcome]

\* const limitRecords = isDevelopment ? 5 : undefined
limitRecords == 5

\* SELECT id, password FROM pw_entries WHERE compromised IS NULL
NullCompromised(recs) ==
  LET F[k \in 0..Len(recs)] ==
        IF k = 0 THEN <<>>
        ELSE IF recs[k].compromised = jsNull THEN Append(F[k - 1], k)
             ELSE F[k - 1]
  IN F[Len(recs)]

\* What a breach-check run or a scoring pass has, and checkAllPasswords
\* leaves alone.
otherVars ==
  <<HIBP_API_KEY, scheduled, resume, limitedAccounts, batchIndex, retryCount,
    breaches, breachedCount, safeCount, errorCount, completed, lookedUp,
    callRequests, waits, lastResponse, killedAt, writes, keyReports,
    definitive, definitiveAtStart, midKill, traced, latency, service, failing,
    writeFailed, riskIndex, sleeps, sentAges>>

\* npm start [--dev]: checkAllPasswords(limitRecords) up to its loop (64-86).
StartPasswords ==
  /\ pc = "idle" /\ runs < MaxRuns
  /\ \E lim \in {<<>>, <<limitRecords>>} :
       /\ limit' = lim
       /\ limitedRows' = LimitAccounts(NullCompromised(records), lim)
  /\ pc' = "passwords"
  /\ i' = 0
  /\ runs' = runs + 1
  /\ rangeResult' = "none"
  /\ UNCHANGED <<records, otherVars>>

\* One turn of the loop (88-126): a row without password is noted and
\* skipped, any other is looked up and written.
CheckPassword ==
  /\ pc = "passwords"
  /\ i < Len(limitedRows)
  /\ LET id == limitedRows[i + 1]
         row == records[id]
     IN IF row.password = jsNull
        THEN /\ records' = [records EXCEPT ![id] =
                              [row EXCEPT !.last_checked_at = <<runs>>,
                                          !.notes = "Missing password"]]
             /\ rangeResult' = "none"
        ELSE \E outcome \in RangeOutcomes :
               LET call == checkPasswordAgainstHIBP(row.password, outcome)
               IN /\ records' = [records EXCEPT ![id] =
                                   [row EXCEPT
                                      !.compromised =
                                         IF call.isCompromised
                                         THEN jsNumber(1) ELSE jsNumber(0),
                                      !.last_checked_at = <<runs>>]]
                  /\ rangeResult' = call.rangeResult
  /\ i' = i + 1
  /\ UNCHANGED <<pc, limit, limitedRows, runs, otherVars>>

\* The loop is over: the results are printed, the database is closed and
\* the process goes on or exits (128-139).
PasswordsDone ==
  /\ pc = "passwords"
  /\ i = Len(limitedRows)
  /\ pc' = "idle"
  /\ i' = 0 /\ limit' = <<>> /\ limitedRows' = <<>>
  /\ rangeResult' = "none"
  /\ UNCHANGED <<records, runs, otherVars>>

\* A store as the imports leave it: no row has been checked.
InitPasswords ==
  /\ \E passwords \in [1..MaxRows -> RowPasswordPool] :
       records = [r \in 1..MaxRows |->
                    [id |-> r, password |-> passwords[r],
                     compromised |-> jsNull, last_checked_at |-> <<>>,
                     notes |-> ""]]
  /\ NoProcess
  /\ runs = 0
  /\ definitive = {} /\ midKill = FALSE
  /\ traced = FALSE /\ latency = 0
  /\ service = Statuses /\ failing = {}
  /\ riskIndex = 0
  /\ limitedRows = <<>> /\ rangeResult = "none"

NextPasswords ==
  \/ StartPasswords
  \/ CheckPassword
  \/ PasswordsDone

SpecPasswords == InitPasswords /\ [][NextPasswords]_vars

\* =================================================================== claims
\* String.prototype.trim(), on the blank.
RECURSIVE TrimLeft(_)
TrimLeft(s) ==
  IF s # <<>> /\ Head(s) = chSpace THEN TrimLeft(Tail(s)) ELSE s

RECURSIVE TrimRight(_)
TrimRight(s) ==
  IF s # <<>> /\ s[Len(s)] = chSpace
  THEN TrimRight(SubSeq(s, 1, Len(s) - 1)) ELSE s

\* The identity as the specification normalises it: lower-cased and trimmed.
Normalized(s) == TrimLeft(TrimRight(Lower(s)))

Emails == {r \in DOMAIN records : LikeAt(records[r].username)}
Identities == {Lower(records[r].username) : r \in Emails}
Members(u) == {r \in DOMAIN records : Lower(records[r].username) = u}
CheckedIdentities ==
  {Lower(records[r].username) : r \in {e \in Emails : HasInfo(records[e])}}
Names(accounts) == {accounts[k].username : k \in 1..Len(accounts)}
Looked == {lookedUp[k] : k \in 1..Len(lookedUp)}

\* C1 (as stated): any two email records whose usernames agree after
\* lower-casing and trimming carry the same breach_info.
C1_SameStateTrimmed ==
  \A r, q \in Emails :
    Normalized(records[r].username) = Normalized(records[q].username)
      => records[r].breach_info = records[q].breach_info

\* C1 (amended): any two email records whose usernames agree after LOWER()
\* carry the same breach_info, in every state runs can reach.
C1_SameStateLower ==
  \A r, q \in Emails :
    Lower(records[r].username) = Lower(records[q].username)
      => records[r].breach_info = records[q].breach_info

\* Two entries spelt differently share an email and its written state.
C1_Witness ==
  \E r, q \in Emails :
    /\ records[r].username # records[q].username
    /\ Lower(records[r].username) = Lower(records[q].username)
    /\ HasInfo(records[r])
    /\ pc = "idle"

\* A step changes all entries of an identity alike, or none of them.
C2_StepAllOrNothing ==
  \A u \in Identities :
    \/ \A r \in Members(u) : records'[r] = records[r]
    \/ \A r, q \in Members(u) :
         /\ records'[r].breach_info = records'[q].breach_info
         /\ records'[r].breach_info # records[r].breach_info

\* The UPDATE for a username that no row carries changes nothing.
C2_NoMemberNoChange ==
  \A k \in 1..Len(UsernamePool) :
    Members(Lower(UsernamePool[k])) = {}
      => /\ UpdateBreachInfo(records, SafeInfo(Now), UsernamePool[k]) = records
         /\ UpdateBreachInfo(records, BreachedInfo(<<>>, Now),
                             UsernamePool[k]) = records

\* C2: in every step, for every identity, either no member's breach_info
\* changes or all its members end with one and the same breach_info (kills
\* included: they change no row); and the UPDATE for a username no row
\* carries changes nothing.
C2_AtomicFanOut == [][C2_StepAllOrNothing]_vars /\ []C2_NoMemberNoChange

\* An UPDATE has just rewritten an identity that has several entries.
C2_Witness ==
  /\ pc = "advance"
  /\ ~breaches.isNull
  /\ account.entry_count >= 2
  /\ \A r \in Members(account.username) :
       HasInfo(records[r]) /\ records[r].breach_info.checkedAt = Now

\* The step that handles an outcome, case by case.
C3_StepReflectsOutcome ==
  (pc = "apply" /\ pc' = "advance") =>
    LET u == account.username
        st == lastResponse.status
        k == Len(lastResponse.body)
    IN /\ st = "404" =>
            \A r \in Members(u) :
              /\ HasInfo(records'[r])
              /\ records'[r].breach_info.checked
              /\ ~records'[r].breach_info.breached
       /\ (st = "200" /\ k >= 1) =>
            \A r \in Members(u) :
              /\ HasInfo(records'[r])
              /\ records'[r].breach_info.checked
              /\ records'[r].breach_info.breached
              /\ records'[r].breach_info.count = k
              /\ Len(records'[r].breach_info.breaches) = k
       /\ st \in {"429", "500", "exception"} =>
            /\ records' = records
            /\ errorCount' = errorCount + 1
            /\ u \in Names(SelectAccounts(records, TRUE))
                 => u \in Names(SelectAccounts(records', TRUE))

\* An entry gets breach_info only on a 200 or 404 for its identity.
C3_CheckedOnlyOnAnswer ==
  \A r \in DOMAIN records :
    (~HasInfo(records[r]) /\ HasInfo(records'[r])) =>
      /\ pc = "apply"
      /\ lastResponse.status \in {"200", "404"}
      /\ Lower(records[r].username) = account.username

\* C3: the step that handles a lookup's outcome leaves the store reflecting
\* it: after a 404 every entry of the identity is checked and not breached;
\* after a 200 with k >= 1 breaches every entry is checked, breached, with
\* count k and k stored breaches; after a 429 that exhausted the retries, an
\* error status or a transport error no row changes and an identity a resume
\* run would select is still selected.  An entry gets breach_info only in
\* such a step, for the identity looked up, on a 200 or a 404.
C3_StoreReflectsOutcome ==
  [][C3_StepReflectsOutcome /\ C3_CheckedOnlyOnAnswer]_vars

\* One run has seen all three outcomes, and the identity whose lookup failed
\* last is still unchecked and selected by a resume run.
C3_Witness ==
  /\ pc = "advance"
  /\ breaches.isNull
  /\ safeCount >= 1 /\ breachedCount >= 1 /\ errorCount >= 1
  /\ account.username \notin CheckedIdentities
  /\ account.username \in Names(SelectAccounts(records, TRUE))

\* C4: a resume run never looks up an identity that got a 200 or a 404 in
\* an earlier run, and a resume run without limit that has returned has
\* looked up exactly the identities that had no such answer when it began
\* (those no run reached and those whose lookups failed).  Runs killed
\* between an answer and its UPDATE are set aside: that answer was lost.
C4_ResumeLooksUpComplement ==
  (resume /\ ~midKill) =>
    /\ Looked \cap definitiveAtStart = {}
    /\ (pc = "done" /\ HIBP_API_KEY /\ limit = <<>>) =>
         Looked = Identities \ definitiveAtStart

\* A resume run without limit has returned after looking up the two
\* identities an earlier run left without an answer.
C4_Witness ==
  /\ pc = "done" /\ resume /\ limit = <<>> /\ HIBP_API_KEY /\ ~midKill
  /\ definitiveAtStart # {}
  /\ Cardinality(Looked) >= 2
  /\ Looked = Identities \ definitiveAtStart

\* C5: at every moment of a run with the default configuration, the
\* requests sent in the last 60 seconds number at most requestsPerMinute.
C5_AtMostTenPerMinute == Len(sentAges) <= requestsPerMinute

\* C6: except between an answer and its UPDATE, every identity that has got
\* a 200 or a 404 is stored as checked and is not selected by a resume run;
\* so it is when the next lookup starts and when the process is killed
\* between two identities.
C6_PersistedBeforeNextLookup ==
  (pc # "apply" /\ ~midKill) =>
    /\ definitive \subseteq CheckedIdentities
    /\ definitive \cap Names(SelectAccounts(records, TRUE)) = {}

\* The process was killed between two identities, with answers received
\* and identities still to check.
C6_Witness ==
  /\ pc = "idle"
  /\ killedAt \in {"request", "backoff", "advance"}
  /\ ~midKill
  /\ definitive # {}
  /\ definitive \subseteq CheckedIdentities
  /\ Identities \ CheckedIdentities # {}

\* The most identities a limit admits: none, if it is not positive.
LimitCap == IF limit[1] > 0 THEN limit[1] ELSE 0

\* C7: a run given a limit L looks up at most L identities.
C7_LimitCapsLookups ==
  limit # <<>> => Cardinality(Looked) <= LimitCap

\* The waits before retries 1, 2 and 3, in seconds.
RetryWaits == <<2, 4, 8>>

\* What holds at every moment of a call.
C8_CallBounded ==
  /\ callRequests <= 1 + Len(RetryWaits)
  /\ Len(waits) <= Len(RetryWaits)
  /\ Len(waits) = retryCount
  /\ \A k \in 1..Len(waits) : waits[k] = RetryWaits[k]
  /\ pc = "backoff" => lastResponse.status = "429"
  /\ (pc = "apply" /\ lastResponse.status = "429") =>
       /\ breaches.isNull
       /\ callRequests = 1 + Len(RetryWaits)
       /\ waits = RetryWaits

\* What holds of every step of a call.
C8_CallSteps ==
  /\ (pc = "request" /\ callRequests' = callRequests + 1) =>
       /\ callRequests >= 1 => lastResponse.status = "429"
       /\ lastResponse'.status # "429" => pc' = "apply"
       /\ lastResponse'.status \notin {"200", "404"} =>
            (pc' = "apply" => breaches'.isNull)
  /\ (pc = "apply" /\ breaches.isNull /\ pc' = "advance") => records' = records
  /\ (pc \in {"request", "backoff"} /\ pc' \in {"request", "backoff"}) =>
       2 * (Len(RetryWaits) - retryCount') + (IF pc' = "request" THEN 1 ELSE 0)
         < 2 * (Len(RetryWaits) - retryCount) + (IF pc = "request" THEN 1 ELSE 0)

\* C8: one call of the lookup client sends at most 1 + 3 requests; the
\* waits before its retries are 2, 4 and 8 seconds; it retries only after a
\* 429; any other outcome ends it at once; a 429 on the third retry ends it
\* with null, which changes no row; and every step inside the call brings
\* its end nearer.
C8_LookupBounded == []C8_CallBounded /\ [][C8_CallSteps]_vars

\* A call has ended in null after four 429s and the three waits.
C8_Witness ==
  /\ pc = "apply"
  /\ lastResponse.status = "429"
  /\ callRequests = 4
  /\ waits = <<2, 4, 8>>
  /\ breaches.isNull

\* C9 (as stated): a run without API key, in any mode, looks nothing up,
\* sends no request, writes nothing and reports the missing key once.
C9_NoKeyReportedOnce ==
  (pc # "idle" /\ ~HIBP_API_KEY) =>
    /\ lookedUp = <<>> /\ callRequests = 0
    /\ writes = 0
    /\ keyReports = 1

\* C9 (amended): a run without API key looks nothing up, sends no request
\* and writes nothing; it reports the missing key once, except that a
\* scheduled run that finds no identity remaining returns before the key is
\* looked at and reports nothing.
C9_NoKeyNoWork ==
  (pc # "idle" /\ ~HIBP_API_KEY) =>
    /\ pc = "done"
    /\ lookedUp = <<>> /\ callRequests = 0
    /\ writes = 0
    /\ keyReports =
         IF scheduled /\ getBreachCheckProgress(records).remaining = 0
         THEN 0 ELSE 1

\* A scheduled run without key has returned with identities still to check,
\* having reported the key once.
C9_Witness ==
  /\ pc = "done" /\ ~HIBP_API_KEY /\ scheduled
  /\ Cardinality(Identities \ CheckedIdentities) >= 2
  /\ keyReports = 1
  /\ lookedUp = <<>> /\ writes = 0

\* A run over everything: no resume filter, nothing cut off by a limit.
FullRun == pc # "idle" /\ HIBP_API_KEY /\ ~scheduled /\ ~resume /\ ~Truthy(limit)

\* C10 (as stated): the group list of a full run has one group per distinct
\* lower-cased and trimmed identity among the email records, each counting
\* the records with that normalised identity, in ascending order.
C10_GroupsByTrimmedIdentity ==
  FullRun =>
    LET G == limitedAccounts IN
    /\ Len(G) = Cardinality({Normalized(records[r].username) : r \in Emails})
    /\ \A k \in 1..Len(G) :
         G[k].entry_count =
           Cardinality({r \in Emails : Normalized(records[r].username)
                                         = Normalized(G[k].username)})
    /\ \A j, k \in 1..Len(G) : j < k => BinaryLess(G[j].username, G[k].username)

\* C10 (amended): the group list of a full run has exactly one group per
\* distinct LOWER(username) among the records containing '@', each counting
\* the records with that lower-cased username; records without '@' are in no
\* group; the groups ascend in byte order; and selecting again from the
\* store as it is at any later moment of the run gives the same list.
C10_GroupsByLowerUsername ==
  FullRun =>
    LET G == limitedAccounts IN
    /\ Names(G) = Identities
    /\ Len(G) = Cardinality(Identities)
    /\ \A k \in 1..Len(G) :
         G[k].entry_count =
           Cardinality({r \in DOMAIN records :
                          Lower(records[r].username) = G[k].username})
    /\ \A r \in DOMAIN records \ Emails :
         Lower(records[r].username) \notin Names(G)
    /\ \A j, k \in 1..Len(G) : j < k => BinaryLess(G[j].username, G[k].username)
    /\ SelectAccounts(records, FALSE) = G

\* A full run over "a@", "A@" and "a": one group of two, the third record
\* in none.
C10_Witness ==
  /\ FullRun
  /\ Len(limitedAccounts) = 1
  /\ limitedAccounts[1].entry_count = 2
  /\ \E r, q \in Emails : records[r].username # records[q].username
  /\ DOMAIN records \ Emails # {}

\* No identity appears twice among the lookups of a run, every lookup is
\* for the lower-cased username of some record, and so the lookups never
\* outnumber the identities.
C11_NoRepeat ==
  /\ \A j, k \in 1..Len(lookedUp) : j # k => lookedUp[j] # lookedUp[k]
  /\ \A k \in 1..Len(lookedUp) :
       /\ lookedUp[k] \in Identities
       /\ lookedUp[k] = Lower(lookedUp[k])
  /\ Len(lookedUp) <= Cardinality(Identities)

\* A lookup starts only when the one before it has ended and been handled:
\* no request of an earlier call is outstanding, no retry is pending.
C11_OneAtATime ==
  Len(lookedUp') > Len(lookedUp) =>
    /\ pc = "request" /\ retryCount = 0
    /\ callRequests = 0 /\ waits = <<>>
    /\ lastResponse = NoResponse
    /\ Len(lookedUp') = Len(lookedUp) + 1

\* C11: within one run every identity (lower-cased username) is the subject
\* of at most one lookup call, however many records carry it and in whatever
\* letter case; and a lookup call starts only after the previous one has
\* returned and its result has been handled.
C11_OneLookupPerIdentity == []C11_NoRepeat /\ [][C11_OneAtATime]_vars

\* A run has returned after two lookups over three email records, two of
\* them one identity in different letter case.
C11_Witness ==
  /\ pc = "done" /\ HIBP_API_KEY
  /\ Len(lookedUp) = 2
  /\ Cardinality(Emails) = 3
  /\ \E r, q \in Emails :
       /\ records[r].username # records[q].username
       /\ Lower(records[r].username) = Lower(records[q].username)

\* C12: when a run over everything has returned and every one of its
\* lookups ended in "no breaches", getBreachCheckProgress gives
\* total = checked = safe = the number of identities, breached = 0 and
\* remaining = 0; every record with '@' is checked; every record without
\* '@' still has the NULL breach_info it began with.
C12_AllNotFoundProgress ==
  (FullRun /\ pc = "done" /\ ~writeFailed
     /\ safeCount = Len(limitedAccounts)) =>
    LET progress == getBreachCheckProgress(records) IN
    /\ progress.total = Cardinality(Identities)
    /\ progress.checked = progress.total
    /\ progress.safe = progress.total
    /\ progress.breached = 0
    /\ progress.remaining = 0
    /\ \A r \in Emails :
         /\ HasInfo(records[r])
         /\ records[r].breach_info.checked
         /\ ~records[r].breach_info.breached
    /\ \A r \in DOMAIN records \ Emails : records[r].breach_info = NullInfo

\* Such a run over "a@", "A@" or the like: two identities, a third record
\* that shares one of them or has no '@', after an earlier run found
\* breaches.
C12_Witness ==
  /\ FullRun /\ pc = "done" /\ ~writeFailed
  /\ safeCount = 2 /\ Len(limitedAccounts) = 2
  /\ definitiveAtStart # {}
  /\ getBreachCheckProgress(records).safe = 2
  /\ getBreachCheckProgress(records).remaining = 0

\* The breaches stored for the identity just written, and the BreachDate the
\* service gave the breach of a stored name.
StoredBreaches == records[1].breach_info.breaches
ReturnedDate(name) ==
  LET k == CHOOSE j \in 1..Len(breaches.list) : breaches.list[j].Name = name
  IN breaches.list[k].BreachDate

\* C13: once a result with breaches is written, the stored list holds
\* exactly the returned breaches, dated ones newest first, and no breach
\* without a date stands before a dated one.
C13_NewestFirstUnknownLast ==
  (pc = "advance" /\ Len(breaches.list) >= 1) =>
    LET stored == StoredBreaches
        date == [k \in 1..Len(stored) |-> ReturnedDate(stored[k].name)]
    IN /\ HasInfo(records[1]) /\ records[1].breach_info.breached
       /\ Len(stored) = Len(breaches.list)
       /\ {stored[k].name : k \in 1..Len(stored)}
            = {breaches.list[k].Name : k \in 1..Len(breaches.list)}
       /\ \A j, k \in 1..Len(stored) :
            (j < k /\ date[j] # NoDate /\ date[k] # NoDate)
              => date[j] >= date[k]
       /\ \A j, k \in 1..Len(stored) :
            (j < k /\ date[j] = NoDate) => date[k] = NoDate

\* C14: under repeated scheduled runs, every identity whose lookups the
\* service answers whenever they are made is eventually stored as checked.
C14_AnswerableEventuallyChecked ==
  <>(\A u \in Identities \ failing : u \in CheckedIdentities)

\* The step that handles a failed lookup: one more error, no row changed,
\* and the loop goes on to its next step.
C15_FailureStep ==
  (pc = "apply" /\ breaches.isNull /\ pc' # "idle") =>
    /\ errorCount' = errorCount + 1
    /\ records' = records
    /\ pc' = "advance"
    /\ limitedAccounts' = limitedAccounts /\ lookedUp' = lookedUp

\* Errors or not, a run that returns has called the lookup for every
\* selected identity, in order, and counted each in exactly one of its three
\* counters; an identity a resume run failed to look up is not checked.
C15_RunGoesOn ==
  /\ (pc \in {"advance", "done"} /\ ~writeFailed) =>
       errorCount + safeCount + breachedCount = Len(lookedUp)
  /\ (pc = "done" /\ ~writeFailed) =>
       lookedUp = [k \in 1..Len(limitedAccounts) |-> limitedAccounts[k].username]
  /\ (pc = "advance" /\ breaches.isNull /\ resume) =>
       account.username \notin CheckedIdentities

\* C15: a lookup that fails (exception, a status other than 200/404/429, or
\* a 429 after the last retry: all end in null) adds one to errorCount,
\* changes no row, so that an identity not checked before is not checked
\* after, and leaves the run going: when the run returns, every selected
\* identity has been looked up.
C15_ErrorsDoNotStopRun == []C15_RunGoesOn /\ [][C15_FailureStep]_vars

\* A run has returned whose first lookup failed and whose second, made
\* after it, was answered and stored.
C15_Witness ==
  /\ pc = "done" /\ ~writeFailed
  /\ errorCount = 1
  /\ Len(lookedUp) = 2
  /\ lookedUp[1] \notin CheckedIdentities
  /\ lookedUp[2] \in CheckedIdentities

\* The step in which the UPDATE fails, and any step that handles an answer
\* without storing it.
C16_FailedWriteStep ==
  (pc = "apply" /\ ~breaches.isNull /\ pc' # "idle" /\ records' = records) =>
    /\ writeFailed'
    /\ pc' = "done"
    /\ account.username \in Names(SelectAccounts(records, TRUE))
         => account.username \in Names(SelectAccounts(records', TRUE))

\* After a failed UPDATE the run has returned with the failure reported;
\* in a resume run, whose identities were all unchecked, the identity is
\* still unchecked and still selected by a resume run.
C16_FailedWriteState ==
  writeFailed =>
    /\ pc = "done"
    /\ \A r \in Members(account.username) :
         HasInfo(records[r]) => records[r].breach_info.checkedAt # Now
    /\ resume =>
         /\ account.username \notin CheckedIdentities
         /\ account.username \in Names(SelectAccounts(records, TRUE))

\* C16: when the UPDATE for an identity's result fails, the run reports
\* the failure, no record of the identity is marked checked by it, and an
\* identity that was unchecked stays selected by a resume run.
C16_FailedWriteReported ==
  []C16_FailedWriteState /\ [][C16_FailedWriteStep]_vars

\* A resume run got an answer for an identity of two entries and failed to
\* store it.
C16_Witness ==
  /\ pc = "done" /\ writeFailed /\ resume
  /\ account.entry_count = 2
  /\ account.username \in definitive
  /\ account.username \notin CheckedIdentities

\* What holds of a scheduled process at every moment.
C17_ScheduledState ==
  (scheduled /\ pc # "idle") =>
    /\ resume /\ limit # <<>>
    /\ Cardinality(Looked) <= LimitCap
    /\ pc = "done" =>
         completed = (getBreachCheckProgress(records).remaining = 0)

\* A scheduled process that finds nothing remaining returns true at once;
\* no scheduled process looks up an identity that is stored as checked.
C17_ScheduledStep ==
  /\ (pc = "idle" /\ scheduled'
       /\ getBreachCheckProgress(records).remaining = 0) =>
        /\ pc' = "done" /\ completed'
        /\ lookedUp' = <<>> /\ limitedAccounts' = <<>>
  /\ (scheduled /\ Len(lookedUp') > Len(lookedUp)) =>
        account.username \notin CheckedIdentities

\* C17: runScheduledBreachCheck(batchSize) looks nothing up and returns
\* true when nothing remains; otherwise it makes one resume pass over at
\* most batchSize unchecked identities and returns whether nothing remains
\* after it.
C17_ScheduledPass == []C17_ScheduledState /\ [][C17_ScheduledStep]_vars

\* The entries updateAllRiskScores has scored so far.
Scored == 1..riskIndex

\* C18: every score calculateRiskScore returns, and every risk_score
\* written, is an integer from 0 to 100.
C18_ScoreInRange ==
  /\ \A r \in DOMAIN records :
       calculateRiskScore(records[r], records).score \in 0..100
  /\ \A r \in Scored :
       /\ records[r].risk_score
            = <<calculateRiskScore(records[r], records).score>>
       /\ records[r].risk_score[1] \in 0..100

\* All entries are scored: one whose factors add up to more than 100 has
\* the score 100, one without any factor has 0.
C18_Witness ==
  /\ riskIndex = MaxEntries
  /\ records[1].risk_score = <<100>>
  /\ Len(records[1].risk_factors[1]) >= 4
  /\ \E r \in Scored :
       records[r].risk_score = <<0>> /\ records[r].risk_factors = << <<>> >>

\* The sum the specification gives, term by term.
ContainsKeyword(text) ==
  \E c \in 1..Len(CRITICAL_CATEGORIES) :
    Includes(toLowerCase(text), CRITICAL_CATEGORIES[c])

ClaimedSum(entry, allEntries) ==
  (IF entry.compromised = jsNumber(1) THEN 50 ELSE 0)
    + (IF HasInfo(entry) /\ entry.breach_info.breached
       THEN (IF 10 * entry.breach_info.count < 50
             THEN 10 * entry.breach_info.count ELSE 50)
       ELSE 0)
    + (IF ContainsKeyword(entry.name) \/ ContainsKeyword(entry.url)
       THEN 30 ELSE 0)
    + (IF entry.last_checked_at = <<>>
          \/ entry.last_checked_at[1] < nowMonth - 12
       THEN 15 ELSE 0)
    + MathRound(calculatePasswordStrength(entry.password) * 20, 100)
    + (IF /\ entry.password # <<>>
          /\ \E o \in DOMAIN allEntries :
               allEntries[o].id # entry.id
                 /\ allEntries[o].password = entry.password
       THEN 15 ELSE 0)

\* C19: the score written for an entry is min(100, S), S being the sum of
\* 50 if compromised, min(10 * count, 50) if breached, 30 if the name or the
\* URL contains a critical keyword, 15 if last checked never or more than
\* 12 months ago, round(weakness / 100 * 20), and 15 if its non-empty
\* password is that of another entry.
C19_ScoreIsClaimedSum ==
  \A r \in Scored :
    LET S == ClaimedSum(records[r], records)
    IN records[r].risk_score = <<IF S < 100 THEN S ELSE 100>>

\* The label of every score from 0 to 100, by the stated ranges and at the
\* stated boundaries.
C20_LabelOfScore ==
  /\ \A score \in 80..100 : getRiskLevel(score).label = "Critical"
  /\ \A score \in 60..79 : getRiskLevel(score).label = "High"
  /\ \A score \in 30..59 : getRiskLevel(score).label = "Medium"
  /\ \A score \in 0..29 : getRiskLevel(score).label = "Low"
  /\ getRiskLevel(79).label = "High" /\ getRiskLevel(80).label = "Critical"
  /\ getRiskLevel(59).label = "Medium" /\ getRiskLevel(60).label = "High"
  /\ getRiskLevel(29).label = "Low" /\ getRiskLevel(30).label = "Medium"
  /\ \A score \in 0..100 : getRiskLevel(score).score = score

\* C20: the label is a function of the score with inclusive lower bounds
\* 80 (Critical), 60 (High) and 30 (Medium), Low below; and the risk_label
\* written with a risk_score is the label of that score.
C20_SeverityByScore ==
  /\ C20_LabelOfScore
  /\ \A r \in Scored :
       LET score == records[r].risk_score[1] IN
       records[r].risk_label =
         IF score \in 80..100 THEN "Critical"
         ELSE IF score \in 60..79 THEN "High"
         ELSE IF score \in 30..59 THEN "Medium"
         ELSE "Low"

\* Entries have been written with the boundary scores 80, labelled
\* Critical, and 30, labelled Medium.
C20_Witness ==
  /\ \E r \in Scored :
       records[r].risk_score = <<80>> /\ records[r].risk_label = "Critical"
  /\ \E r \in Scored :
       records[r].risk_score = <<30>> /\ records[r].risk_label = "Medium"

\* The six factors in the order calculateRiskScore evaluates them, and the
\* points each of them adds to the score of an entry before the cap.
FactorKinds ==
  <<"compromised", "breached", "critical", "old", "weak", "duplicate">>

FactorPoints(entry, allEntries) ==
  [compromised |->
     IF StrictEquals(entry.compromised, jsTrue) THEN 50 ELSE 0,
   breached |->
     IF HasInfo(entry) /\ entry.breach_info.breached
     THEN (IF 10 * entry.breach_info.count < 50
           THEN 10 * entry.breach_info.count ELSE 50)
     ELSE 0,
   critical |-> IF isCriticalAccount(entry.name, entry.url) THEN 30 ELSE 0,
   old |-> IF isPasswordOld(entry.last_checked_at) THEN 15 ELSE 0,
   weak |-> MathRound(calculatePasswordStrength(entry.password) * 20, 100),
   duplicate |-> IF duplicateCount(entry, allEntries) > 0 THEN 15 ELSE 0]

\* The factor a stored string belongs to.
FactorKind(text) ==
  CASE text = "Password found in data breaches" -> "compromised"
    [] text = "Email found in data breaches" -> "breached"
    [] text = "Critical account category (banking, work, etc.)" -> "critical"
    [] text = "Password not updated in over 12 months" -> "old"
    [] text \in {"Very weak password", "Weak password"} -> "weak"
    [] text = "Password reused across accounts" -> "duplicate"
    [] OTHER -> "none"

\* The factors that added points, in the order of evaluation.
AppliedKinds(entry, allEntries) ==
  LET points == FactorPoints(entry, allEntries)
      F[k \in 0..Len(FactorKinds)] ==
        IF k = 0 THEN <<>>
        ELSE IF points[FactorKinds[k]] > 0
             THEN Append(F[k - 1], FactorKinds[k]) ELSE F[k - 1]
  IN F[Len(FactorKinds)]

StoredKinds(r) ==
  [k \in 1..Len(records[r].risk_factors[1]) |->
     FactorKind(records[r].risk_factors[1][k].text)]

\* C21: the factor list written for an entry has exactly one string for
\* every factor that added points to its score, and none else, in the order
\* compromised, breached, critical category, old, weak password, duplicate
\* password.
C21_OneStringPerAppliedFactor ==
  \A r \in Scored : StoredKinds(r) = AppliedKinds(records[r], records)

\* pattern occurs in text, by the position of its first character.
Occurs(text, pattern) ==
  \E first \in 1..Len(text) :
    /\ first + Len(pattern) - 1 <= Len(text)
    /\ \A k \in 1..Len(pattern) : text[first + k - 1] = pattern[k]

\* The number of character classes (lower-case letter, upper-case letter,
\* digit, other) a secret has characters of.
ClassOf(c) ==
  IF c \in 97..122 THEN "lower"
  ELSE IF c \in 65..90 THEN "upper"
  ELSE IF c \in 48..57 THEN "digit"
  ELSE "other"

Classes(secret) == Cardinality({ClassOf(secret[k]) : k \in DOMAIN secret})

HasCommon(secret) ==
  \E p \in DOMAIN commonPatterns : Occurs(toLowerCase(secret), commonPatterns[p])

HasSequential(secret) ==
  \E p \in DOMAIN sequentialPatterns :
    Occurs(toLowerCase(secret), sequentialPatterns[p])

HasRepeated(secret) ==
  \E k \in DOMAIN secret :
    k + 2 <= Len(secret) /\ secret[k + 1] = secret[k] /\ secret[k + 2] = secret[k]

\* The sum of the penalties as the specification states them.
ClaimedPenalties(secret) ==
  (IF Len(secret) < 8 THEN 30 ELSE IF Len(secret) < 12 THEN 15 ELSE 0)
    + (CASE Classes(secret) < 2 -> 25
         [] Classes(secret) = 2 -> 15
         [] Classes(secret) = 3 -> 5
         [] OTHER -> 0)
    + (IF HasCommon(secret) THEN 40 ELSE 0)
    + (IF HasSequential(secret) THEN 20 ELSE 0)
    + (IF HasRepeated(secret) THEN 15 ELSE 0)

BreachCount(r) ==
  IF HasInfo(records[r]) /\ records[r].breach_info.breached
  THEN records[r].breach_info.count ELSE 0

ScoreWithCount(r, n) ==
  calculateRiskScore([records[r] EXCEPT !.breach_info = InfoWithCount(n)],
                     records).score

\* C23: with everything else about an entry and the other entries fixed,
\* one more breach never gives a smaller score, and from the number at which
\* 10 points per breach reach 50 on, one more breach gives the same score;
\* the score written is the one of the stored number of breaches.
C23_ScoreMonotoneInBreaches ==
  \A r \in DOMAIN records :
    LET n == BreachCount(r)
        score == calculateRiskScore(records[r], records).score
    IN /\ score <= ScoreWithCount(r, n + 1)
       /\ n * 10 >= 50 => score = ScoreWithCount(r, n + 1)
       /\ r \in Scored => records[r].risk_score = <<score>>

\* An entry found in six breaches is stored with the score 50, the score it
\* would have with five breaches; with four it would have 40.
C23_Witness ==
  /\ 1 \in Scored
  /\ BreachCount(1) = 6
  /\ records[1].risk_score = <<50>>
  /\ ScoreWithCount(1, 5) = 50
  /\ ScoreWithCount(1, 4) = 40

\* The other entries that have the password of entry r.
Sharers(r) ==
  {o \in DOMAIN records :
     records[o].id # records[r].id /\ records[o].password = records[r].password}

GainsDuplicateWeight(r) ==
  /\ \E k \in DOMAIN records[r].risk_factors[1] :
       records[r].risk_factors[1][k].text = "Password reused across accounts"
  /\ records[r].risk_score[1] < 100 =>
       records[r].risk_score[1]
         = calculateRiskScore(records[r], <<records[r]>>).score
             + DEFAULT_RISK_WEIGHTS.duplicatePassword

\* C24: an entry is scored with the duplicate-password weight, and has the
\* factor for it, exactly when its password is not empty and is the password
\* of an entry with another id; so all the entries that share a password
\* have the weight, and one with an empty password or with a password of its
\* own is scored as it would be alone.
C24_DuplicateWeightIffShared ==
  \A r \in Scored :
    /\ GainsDuplicateWeight(r)
         <=> (records[r].password # <<>> /\ Sharers(r) # {})
    /\ ~GainsDuplicateWeight(r) =>
         /\ records[r].risk_score
              = <<calculateRiskScore(records[r], <<records[r]>>).score>>
         /\ \A k \in DOMAIN records[r].risk_factors[1] :
              records[r].risk_factors[1][k].text
                # "Password reused across accounts"
    /\ \A o \in Sharers(r) \cap Scored :
         GainsDuplicateWeight(o) <=> GainsDuplicateWeight(r)

\* All entries are scored: two of them share the password "abc" and have
\* the weight, the third has a password of its own and does not.
C24_Witness ==
  /\ riskIndex = MaxEntries
  /\ \E r \in Scored, o \in Scored, u \in Scored :
       /\ r # o /\ records[r].password = PasswordPool[2]
       /\ records[o].password = PasswordPool[2]
       /\ GainsDuplicateWeight(r) /\ GainsDuplicateWeight(o)
       /\ records[u].password # <<>> /\ Sharers(u) = {}
       /\ ~GainsDuplicateWeight(u)

\* The delay the specification gives after the k-th lookup of a run, when
\* another lookup follows.
ClaimedSleep(k) ==
  IF k % batchSize = 0 THEN delayBetweenBatches ELSE delayBetweenRequests

\* C26: the identities are looked up in the order selected, in consecutive
\* batches of batchSize: before the lookup at position p of the list (its
\* lookup, retries and UPDATE included) exactly p delays have been slept,
\* one after each earlier lookup, delayBetweenBatches after every
\* batchSize-th lookup and delayBetweenRequests after the others; a run
\* that has come to the end of its list has slept after every lookup but
\* the last.
C26_DelaysByBatch ==
  /\ \A k \in DOMAIN sleeps : sleeps[k] = ClaimedSleep(k)
  /\ pc \in {"request", "backoff", "apply", "advance"} =>
       /\ Len(sleeps) = batchStart + i
       /\ batchIndex = (Len(sleeps) \div batchSize)
       /\ i = Len(sleeps) % batchSize
       /\ account = limitedAccounts[Len(sleeps) + 1]
  /\ (pc = "done" /\ ~writeFailed /\ Len(limitedAccounts) > 0) =>
       Len(sleeps) = Len(limitedAccounts) - 1
  /\ Len(lookedUp) <= Len(sleeps) + 1
  /\ \A k \in DOMAIN lookedUp : lookedUp[k] = limitedAccounts[k].username

\* A run over nine identities has come to its end: it has slept
\* delayBetweenRequests seven times, delayBetweenBatches once after the
\* eighth lookup, and nothing after the ninth.
C26_Witness ==
  /\ pc = "done" /\ ~writeFailed
  /\ Len(limitedAccounts) = batchSize + 1
  /\ Len(lookedUp) = batchSize + 1
  /\ sleeps = [k \in 1..batchSize |->
                 IF k = batchSize THEN delayBetweenBatches
                 ELSE delayBetweenRequests]

\* C25: an entry that checkPasswords has marked compromised, read back by
\* updateAllRiskScores as db.all() returns it, is written with the factor
\* "Password found in data breaches" and a score of at least 50.
C25_CompromisedScoresFifty ==
  \A r \in Scored :
    records[r].compromised = jsNumber(1) =>
      /\ records[r].risk_score[1] >= DEFAULT_RISK_WEIGHTS.compromisedPassword
      /\ \E k \in DOMAIN records[r].risk_factors[1] :
           records[r].risk_factors[1][k].text = "Password found in data breaches"

\* The three risk columns of entry r are NULL.
RiskAbsent(r) ==
  /\ records[r].risk_score = <<>>
  /\ records[r].risk_label = ""
  /\ records[r].risk_factors = <<>>

\* The three risk columns of entry r are the score, the label of that score
\* and the factors of one calculation, made when its breach_info was b.
RiskFromOneCalculation(r, b) ==
  LET result == calculateRiskScore([records[r] EXCEPT !.breach_info = b],
                                   records)
  IN /\ records[r].risk_score = <<result.score>>
     /\ records[r].risk_factors = <<result.factors>>
     /\ records[r].risk_label =
          (IF result.score >= 80 THEN "Critical"
           ELSE IF result.score >= 60 THEN "High"
           ELSE IF result.score >= 30 THEN "Medium"
           ELSE "Low")

C28_ProgressCountsAddUp ==
  LET progress == getBreachCheckProgress(records)
  IN /\ progress.checked = progress.breached + progress.safe
     /\ progress.remaining = progress.total - progress.checked
     /\ progress.remaining >= 0 /\ progress.remaining <= progress.total
     /\ progress.total = Cardinality(Identities)
     /\ progress.checked = Cardinality(CheckedIdentities)
     /\ progress.remaining = Cardinality(Identities \ CheckedIdentities)

\* After the runs, of two identities one, of two entries, is breached and
\* the other is still to be checked.
C28_Witness ==
  LET progress == getBreachCheckProgress(records)
  IN /\ pc = "idle" /\ runs > 0
     /\ progress.total = 2 /\ progress.checked = 1 /\ progress.remaining = 1
     /\ progress.breached = 1
     /\ \E u \in CheckedIdentities : Cardinality(Members(u)) = 2

\* C29: no step of any run takes breach state away: an entry that has it
\* keeps having it, so a checked identity stays checked and the remaining
\* count of getBreachCheckProgress does not go up; and the step that
\* handles a failed lookup leaves every entry as it was, in a run without
\* --resume as in any other.
C29_StepKeepsChecked ==
  /\ \A r \in DOMAIN records : HasInfo(records[r]) => HasInfo(records'[r])
  /\ CheckedIdentities \subseteq
       {Lower(records'[r].username) :
          r \in {e \in Emails : HasInfo(records'[e])}}
  /\ getBreachCheckProgress(records').remaining
       <= getBreachCheckProgress(records).remaining
  /\ (pc = "apply" /\ ResultKind(breaches) = "error" /\ pc' = "advance")
       => records' = records

C29_CheckedNeverLost == [][C29_StepKeepsChecked]_vars

\* A run without --resume has looked up again an identity that an earlier
\* run had found breached; the lookup failed, and the entries of the
\* identity still have the breach state of the earlier run.
C29_Witness ==
  /\ pc = "advance" /\ ~resume /\ ~scheduled
  /\ ResultKind(breaches) = "error"
  /\ errorCount > 0
  /\ account.username \in definitiveAtStart
  /\ \A r \in Members(account.username) :
       HasInfo(records[r]) /\ records[r].breach_info.breached
  /\ getBreachCheckProgress(records).remaining = 0

\* The row checkAllPasswords has just handled.
RowHandled == limitedRows[i + 1]

\* C30: the loop writes compromised = 0 to a row only when the range
\* request of that row ended in an ok response without the suffix of its
\* hash; when the request ended in a response that is not ok or was
\* rejected, the row's compromised is still NULL and the row is selected by
\* the next run.
C30_StepSafeOnlyOnCleanAnswer ==
  (pc = "passwords" /\ i' = i + 1) =>
    /\ (records'[RowHandled].compromised = jsNumber(0))
         => rangeResult' = "absent"
    /\ rangeResult' \in {"notOk", "networkError"} =>
         /\ records'[RowHandled].compromised = jsNull
         /\ \E k \in DOMAIN NullCompromised(records') :
              NullCompromised(records')[k] = RowHandled

C30_SafeOnlyOnCleanAnswer == [][C30_StepSafeOnlyOnCleanAnswer]_vars

====
